---- MODULE Spec2Model ----
(***************************************************************************)
(* A model of cbf-rs: the byte-offset decoder (compression/byte_offset.rs, *)
(* compression/from_bytes.rs) and the decode pipeline of lib.rs            *)
(* (read_all_images, read_image and the functions they call).              *)
(*                                                                         *)
(* A byte is a number in 0..255.  A stream is a sequence of bytes and pos  *)
(* is the number of bytes the reader has consumed.  A pixel value of a     *)
(* W-bit type is its two's complement bit pattern, written as the sequence *)
(* of its W/8 bytes, least significant byte first: the pattern is the same *)
(* for the signed and the unsigned type of one width, as it is in memory.  *)
(***************************************************************************)
EXTENDS Integers, Sequences, FiniteSets, TLC

VARIABLES
    overflow_checks, \* the build profile: TRUE when `+` panics on overflow (dev, test)
    stream,          \* the bytes behind the reader
    pos,             \* the number of bytes consumed from the stream
    pc,              \* the place of the control in the code
    caller,          \* who called read_byte_offset: "test" (a direct call) or "read_pixels"
    P,               \* the pixel type P of ByteOffsetReader<R, P> and of Average<P>
    buf,             \* read_byte_offset's buf: &mut [P]
    idx,             \* the i of the loop of ByteOffsetReader::read
    base_value,      \* ByteOffsetReader::base_value
    decode_result,   \* what read_byte_offset did: "none", "Ok", "IO", or "panic"
    deltas,          \* history: one record per value read_value returned
    line,            \* the String line of read_headers
    headers,         \* the HashMap headers of read_headers
    metadata,        \* the Metadata of read_image
    steps,           \* history: the calls the current read_image has made
    marks,           \* history: pos when the current read_image got to its calls
    image_result,    \* what read_image returned: "none", "Ok", or the error
    image,           \* the Image read_image returned
    images,          \* the Vec images of read_all_images
    decoded,         \* history: the images read_image returned, with their place
    returned,        \* what read_all_images returned
    sampled,         \* the Image<P> get_pixel is called on
    coordinate,      \* the coordinate of the last call of get_pixel
    index_result,    \* what coordinate.index(width, height) was in that call
    pixel,           \* what that call of get_pixel returned
    accumulator,     \* an Average<P>: its sum and its count
    added,           \* history: how many times each value was added
    mean,            \* what average() returned since the last add
    config,          \* the AnalysisConfig of radial_difraction_analysis
    samples,         \* its samples: Box<[Average<P>]>
    angle_index,     \* the i of its outer loop
    radius_index,    \* the j of its inner loop
    sampler_calls,   \* history: the calls of sampler_method and what they returned
    profile          \* what radial_difraction_analysis returned

inputVars == <<overflow_checks, stream, caller>>
decodeVars == <<P, buf, idx, base_value, decode_result, deltas>>
headerVars == <<line, headers, metadata>>
outVars == <<images, decoded, returned>>
imageVars == <<sampled, coordinate, index_result, pixel>>
averageVars == <<accumulator, added, mean>>
radialVars == <<config, samples, angle_index, radius_index, sampler_calls, profile>>
analysisVars == <<imageVars, averageVars, radialVars>>
vars == <<overflow_checks, stream, pos, pc, caller, P, buf, idx, base_value,
          decode_result, deltas, line, headers, metadata, steps, marks,
          image_result, image, images, decoded, returned, sampled, coordinate,
          index_result, pixel, accumulator, added, mean, config, samples,
          angle_index, radius_index, sampler_calls, profile>>

---------------------------------------------------------------------------
(* Bounds of the model. *)

\* the most chunks (encoded samples) a payload is put together from
MaxChunks == 2
\* the most samples read_byte_offset is asked for (buf.len())
MaxCount == 2
\* the most pieces (sections, lines) a stream is put together from
MaxPieces == 2

---------------------------------------------------------------------------
(* Bytes and fixed-width values. *)

Byte == 0..255

\* the byte that fills the upper bytes when a value with low byte b is sign-extended
SignFill(b) == IF b >= 128 THEN 255 ELSE 0

\* `x as uN`, N wider: the upper bytes are zero
ZeroExtend(bytes, n) == bytes \o [k \in 1..(n - Len(bytes)) |-> 0]

\* `x as iN` for a signed x, N wider: the upper bytes repeat the sign
SignExtend(bytes, n) ==
    bytes \o [k \in 1..(n - Len(bytes)) |-> SignFill(bytes[Len(bytes)])]

\* the first n bytes of an array pattern `[byte1, .., byteN, ..]`
FirstBytes(bytes, n) == SubSeq(bytes, 1, n)

PixelTypes == {"u8", "i8", "u16", "i16", "u32", "i32", "u64", "i64"}

IsSigned(T) == T \in {"i8", "i16", "i32", "i64"}

\* size_of::<T>()
SizeOf(T) ==
    CASE T \in {"u8", "i8"} -> 1
      [] T \in {"u16", "i16"} -> 2
      [] T \in {"u32", "i32"} -> 4
      [] T \in {"u64", "i64"} -> 8

\* P::from_1_bytes([0]), and the $zero of read_pixels
Zero(T) == [k \in 1..SizeOf(T) |-> 0]

---------------------------------------------------------------------------
(* compression/from_bytes.rs: trait FromBytes, one impl per type. *)

from_1_bytes(T, bytes) ==
    CASE T = "u8" -> <<bytes[1]>>
      [] T = "i8" -> <<bytes[1]>>
      [] T = "u16" -> ZeroExtend(<<bytes[1]>>, 2)
      [] T = "i16" -> SignExtend(<<bytes[1]>>, 2)
      [] T = "u32" -> ZeroExtend(<<bytes[1]>>, 4)
      [] T = "i32" -> SignExtend(<<bytes[1]>>, 4)
      [] T = "u64" -> ZeroExtend(<<bytes[1]>>, 8)
      [] T = "i64" -> SignExtend(<<bytes[1]>>, 8)

\* from_2_bytes without the sign: every wider type is filled with zeros
from_2_bytes_unsigned(T, bytes) ==
    IF SizeOf(T) = 1 THEN <<bytes[1]>> ELSE ZeroExtend(bytes, SizeOf(T))

from_2_bytes(T, bytes) ==
    CASE T = "u8" -> <<bytes[1]>>
      [] T = "i8" -> <<bytes[1]>>
      [] T = "u16" -> bytes
      [] T = "i16" -> bytes
      [] T = "u32" -> ZeroExtend(bytes, 4)
      [] T = "i32" -> SignExtend(bytes, 4)
      [] T = "u64" -> ZeroExtend(bytes, 8)
      [] T = "i64" -> SignExtend(bytes, 8)

from_4_bytes(T, bytes) ==
    CASE T = "u8" -> <<bytes[1]>>
      [] T = "i8" -> <<bytes[1]>>
      [] T = "u16" -> FirstBytes(bytes, 2)
      [] T = "i16" -> FirstBytes(bytes, 2)
      [] T = "u32" -> bytes
      [] T = "i32" -> bytes
      [] T = "u64" -> ZeroExtend(bytes, 8)
      [] T = "i64" -> SignExtend(bytes, 8)

from_8_bytes(T, bytes) ==
    CASE T = "u8" -> <<bytes[1]>>
      [] T = "i8" -> <<bytes[1]>>
      [] T = "u16" -> FirstBytes(bytes, 2)
      [] T = "i16" -> FirstBytes(bytes, 2)
      [] T = "u32" -> FirstBytes(bytes, 4)
      [] T = "i32" -> FirstBytes(bytes, 4)
      [] T = "u64" -> bytes
      [] T = "i64" -> bytes

---------------------------------------------------------------------------
(* `self.base_value += value` on a primitive integer. *)

RECURSIVE add_carry(_, _, _)
\* the carry out of a + b + c, byte by byte
add_carry(a, b, c) ==
    IF a = <<>> THEN c
    ELSE add_carry(Tail(a), Tail(b), (a[1] + b[1] + c) \div 256)

RECURSIVE wrapping_add_c(_, _, _)
wrapping_add_c(a, b, c) ==
    IF a = <<>> THEN <<>>
    ELSE <<(a[1] + b[1] + c) % 256>>
         \o wrapping_add_c(Tail(a), Tail(b), (a[1] + b[1] + c) \div 256)

\* a + b modulo 2^W
wrapping_add(a, b) == wrapping_add_c(a, b, 0)

IsNegative(a) == a[Len(a)] >= 128

\* TRUE when a + b leaves the range of the type T
add_overflows(T, a, b) ==
    IF IsSigned(T)
    THEN /\ IsNegative(a) = IsNegative(b)
         /\ IsNegative(wrapping_add(a, b)) # IsNegative(a)
    ELSE add_carry(a, b, 0) = 1

\* AddAssign of a primitive: with overflow checks the addition panics when it
\* overflows, without them it wraps
add_assign(T, a, b, checks) ==
    [panic |-> checks /\ add_overflows(T, a, b), value |-> wrapping_add(a, b)]

---------------------------------------------------------------------------
(* compression/byte_offset.rs *)

\* read_n_bytes that takes one byte more from the stream than it returns
read_n_bytes_and_one(n, s, p) ==
    IF p + n <= Len(s)
    THEN [ok |-> TRUE, bytes |-> SubSeq(s, p + 1, p + n),
          pos |-> IF p + n < Len(s) THEN p + n + 1 ELSE p + n]
    ELSE [ok |-> FALSE, bytes |-> <<>>, pos |-> Len(s)]

\* read_n_bytes::<N>: read_exact fills N bytes or fails, and a failed
\* read_exact has consumed what was left
read_n_bytes(n, s, p) ==
    IF p + n <= Len(s)
    THEN [ok |-> TRUE, bytes |-> SubSeq(s, p + 1, p + n), pos |-> p + n]
    ELSE [ok |-> FALSE, bytes |-> <<>>, pos |-> Len(s)]

\* the free function read_value::<P>: the escape chain
read_value(T, s, p) ==
    LET b1 == read_n_bytes(1, s, p) IN
    IF ~b1.ok THEN [ok |-> FALSE, value |-> Zero(T), pos |-> b1.pos]
    ELSE IF from_1_bytes("u8", b1.bytes) # <<128>>
    THEN [ok |-> TRUE, value |-> from_1_bytes(T, b1.bytes), pos |-> b1.pos]
    ELSE
    LET b2 == read_n_bytes(2, s, b1.pos) IN
    IF ~b2.ok THEN [ok |-> FALSE, value |-> Zero(T), pos |-> b2.pos]
    ELSE IF from_2_bytes("u16", b2.bytes) # <<0, 128>>
    THEN [ok |-> TRUE, value |-> from_2_bytes(T, b2.bytes), pos |-> b2.pos]
    ELSE
    LET b4 == read_n_bytes(4, s, b2.pos) IN
    IF ~b4.ok THEN [ok |-> FALSE, value |-> Zero(T), pos |-> b4.pos]
    ELSE IF from_4_bytes("u32", b4.bytes) # <<0, 0, 0, 128>>
    THEN [ok |-> TRUE, value |-> from_4_bytes(T, b4.bytes), pos |-> b4.pos]
    ELSE
    LET b8 == read_n_bytes(8, s, b4.pos) IN
    IF ~b8.ok THEN [ok |-> FALSE, value |-> Zero(T), pos |-> b8.pos]
    ELSE [ok |-> TRUE, value |-> from_8_bytes(T, b8.bytes), pos |-> b8.pos]

\* ByteOffsetReader::read_value with a base that is not kept: every sample is
\* its own delta
reader_read_value_from_zero(T, s, p, base, checks) ==
    LET v == read_value(T, s, p) IN
    [ok |-> v.ok, panic |-> FALSE, delta |-> v.value,
     base |-> IF v.ok THEN v.value ELSE base, pos |-> v.pos]

\* ByteOffsetReader::read_value: the delta is added to the running base
reader_read_value(T, s, p, base, checks) ==
    LET v == read_value(T, s, p)
        sum == add_assign(T, base, v.value, checks) IN
    [ok |-> v.ok,
     panic |-> v.ok /\ sum.panic,
     delta |-> v.value,
     base |-> IF v.ok /\ ~sum.panic THEN sum.value ELSE base,
     pos |-> v.pos]

---------------------------------------------------------------------------
(* Text.  A String is the sequence of its bytes; the functions of str that *)
(* the code calls are modelled on ASCII text.                              *)

CR == 13
LF == 10

RECURSIVE FindByte(_, _, _)
\* the least index k >= from with s[k] = c, or 0 when there is none
FindByte(s, from, c) ==
    IF from > Len(s) THEN 0
    ELSE IF s[from] = c THEN from
    ELSE FindByte(s, from + 1, c)

RECURSIVE FindCrLf(_, _)
\* the least index k >= from where the two bytes CR LF start, or 0
FindCrLf(s, from) ==
    IF from + 1 > Len(s) THEN 0
    ELSE IF s[from] = CR /\ s[from + 1] = LF THEN from
    ELSE FindCrLf(s, from + 1)

IsContinuation(b) == b \in 128..191

RECURSIVE utf8_from(_, _)
\* core::str::from_utf8 on the bytes from index k on
utf8_from(b, k) ==
    IF k > Len(b) THEN TRUE
    ELSE LET c == b[k]
             Next1 == k + 1 <= Len(b) /\ IsContinuation(b[k + 1])
             Next2 == k + 2 <= Len(b) /\ IsContinuation(b[k + 2])
             Next3 == k + 3 <= Len(b) /\ IsContinuation(b[k + 3]) IN
         IF c < 128 THEN utf8_from(b, k + 1)
         ELSE IF c \in 194..223 THEN Next1 /\ utf8_from(b, k + 2)
         ELSE IF c = 224 THEN Next1 /\ b[k + 1] >= 160 /\ Next2 /\ utf8_from(b, k + 3)
         ELSE IF c = 237 THEN Next1 /\ b[k + 1] <= 159 /\ Next2 /\ utf8_from(b, k + 3)
         ELSE IF c \in 225..239 THEN Next1 /\ Next2 /\ utf8_from(b, k + 3)
         ELSE IF c = 240
         THEN Next1 /\ b[k + 1] >= 144 /\ Next2 /\ Next3 /\ utf8_from(b, k + 4)
         ELSE IF c = 244
         THEN Next1 /\ b[k + 1] <= 143 /\ Next2 /\ Next3 /\ utf8_from(b, k + 4)
         ELSE IF c \in 241..243 THEN Next1 /\ Next2 /\ Next3 /\ utf8_from(b, k + 4)
         ELSE FALSE

is_utf8(b) == (\A k \in 1..Len(b) : b[k] < 128) \/ utf8_from(b, 1)

\* BufRead::read_line(&mut buffer): the bytes up to and including the next LF, or
\* up to the end of the stream, are consumed and appended to buffer; bytes that
\* are not UTF-8 are an error (InvalidData) and leave buffer as it was
read_line(s, p, buffer) ==
    LET lf == FindByte(s, p + 1, LF)
        to == IF lf = 0 THEN Len(s) ELSE lf
        bytes == SubSeq(s, p + 1, to) IN
    IF is_utf8(bytes)
    THEN [ok |-> TRUE, n |-> to - p, line |-> buffer \o bytes, pos |-> to]
    ELSE [ok |-> FALSE, n |-> 0, line |-> buffer, pos |-> to]

\* char::to_lowercase on ASCII
lower(c) == IF c \in 65..90 THEN c + 32 ELSE c

\* str::to_lowercase
to_lowercase(s) == [k \in 1..Len(s) |-> lower(s[k])]

\* the ASCII characters with char::is_whitespace: tab, LF, VT, FF, CR, space
Whitespace == (9..13) \cup {32}

\* the characters with is_whitespace_or_quote of metadata/mod.rs
WhitespaceOrQuote == Whitespace \cup {34}

RECURSIVE trim_start_matches(_, _)
trim_start_matches(s, chars) ==
    IF s # <<>> /\ s[1] \in chars THEN trim_start_matches(Tail(s), chars) ELSE s

RECURSIVE trim_end_matches(_, _)
trim_end_matches(s, chars) ==
    IF s # <<>> /\ s[Len(s)] \in chars
    THEN trim_end_matches(SubSeq(s, 1, Len(s) - 1), chars)
    ELSE s

\* str::trim_matches
trim_matches(s, chars) == trim_end_matches(trim_start_matches(s, chars), chars)

\* str::trim
trim(s) == trim_matches(s, Whitespace)

\* str::starts_with
starts_with(s, prefix) ==
    Len(s) >= Len(prefix) /\ SubSeq(s, 1, Len(prefix)) = prefix

\* the index of the first byte c of s, or 0
IndexOf(s, c) == FindByte(s, 1, c)

RECURSIVE split(_, _)
\* str::split(c): the pieces between the separators, at least one piece
split(s, c) ==
    LET k == IndexOf(s, c) IN
    IF k = 0 THEN <<s>>
    ELSE <<SubSeq(s, 1, k - 1)>> \o split(SubSeq(s, k + 1, Len(s)), c)

IsDigit(c) == c \in 48..57

RECURSIVE digits_value(_)
digits_value(s) ==
    IF s = <<>> THEN 0 ELSE 10 * digits_value(SubSeq(s, 1, Len(s) - 1)) + (s[Len(s)] - 48)

\* usize::from_str: an optional '+' and then digits only, at least one (the
\* numbers of the model have at most 9 digits, usize itself holds 20)
parse_usize(s) ==
    LET d == IF s # <<>> /\ s[1] = 43 THEN Tail(s) ELSE s IN
    IF d # <<>> /\ Len(d) <= 9 /\ \A k \in 1..Len(d) : IsDigit(d[k])
    THEN [ok |-> TRUE, value |-> digits_value(d)]
    ELSE [ok |-> FALSE, value |-> 0]

---------------------------------------------------------------------------

(* metadata/headers.rs: the field parser, built from the streaming parsers *)
(* of nom.  A parser is applied to the input inp from index i on; it gives *)
(* st = "Ok" with the index i after what it consumed and its output out,   *)
(* or "Incomplete" (more input is needed), or "Error".                     *)

Parsed(st, i, out) == [st |-> st, i |-> i, out |-> out]

RECURSIVE SkipWhile(_, _, _)
\* the least index k >= i with s[k] not in chars, Len(s) + 1 when there is none
SkipWhile(s, i, chars) ==
    IF i > Len(s) THEN i
    ELSE IF s[i] \in chars THEN SkipWhile(s, i + 1, chars)
    ELSE i

RECURSIVE SkipUntil(_, _, _)
\* the least index k >= i with s[k] in stops, Len(s) + 1 when there is none
SkipUntil(s, i, stops) ==
    IF i > Len(s) THEN i
    ELSE IF s[i] \in stops THEN i
    ELSE SkipUntil(s, i + 1, stops)

\* the characters c with ' ' <= c && c != ' ' && c != ':' && c <= '~'
FieldNameChars == (32..126) \ {32, 58}

\* the characters of lwsp_chars and of space0: space and tab
Lwsp == {32, 9}

\* field_name: take_while1 of the field name characters
field_name(inp, i) ==
    LET j == SkipWhile(inp, i, FieldNameChars) IN
    IF j > Len(inp) THEN Parsed("Incomplete", i, <<>>)
    ELSE IF j = i THEN Parsed("Error", i, <<>>)
    ELSE Parsed("Ok", j, SubSeq(inp, i, j - 1))

\* nom::character::streaming::space0
space0(inp, i) ==
    LET j == SkipWhile(inp, i, Lwsp) IN
    IF j > Len(inp) THEN Parsed("Incomplete", i, <<>>)
    ELSE Parsed("Ok", j, <<>>)

\* nom::character::streaming::char(c)
char(inp, i, c) ==
    IF i > Len(inp) THEN Parsed("Incomplete", i, <<>>)
    ELSE IF inp[i] = c THEN Parsed("Ok", i + 1, <<>>)
    ELSE Parsed("Error", i, <<>>)

\* nom::character::streaming::crlf
crlf(inp, i) ==
    IF i > Len(inp) THEN Parsed("Incomplete", i, <<>>)
    ELSE IF inp[i] # CR THEN Parsed("Error", i, <<>>)
    ELSE IF i + 1 > Len(inp) THEN Parsed("Incomplete", i, <<>>)
    ELSE IF inp[i + 1] # LF THEN Parsed("Error", i, <<>>)
    ELSE Parsed("Ok", i + 2, <<>>)

\* lwsp_chars that takes one space or tab and no more
lwsp_chars_one(inp, i) ==
    IF i > Len(inp) THEN Parsed("Incomplete", i, <<>>)
    ELSE IF inp[i] \notin Lwsp THEN Parsed("Error", i, <<>>)
    ELSE IF i + 1 > Len(inp) THEN Parsed("Incomplete", i, <<>>)
    ELSE Parsed("Ok", i + 1, <<>>)

\* lwsp_chars that does not wait for the character after the CRLF
lwsp_chars_no_lookahead(inp, i) ==
    IF i > Len(inp) THEN Parsed("Error", i, <<>>)
    ELSE IF inp[i] \notin Lwsp THEN Parsed("Error", i, <<>>)
    ELSE LET j == SkipWhile(inp, i, Lwsp) IN
         IF j > Len(inp) THEN Parsed("Incomplete", i, <<>>)
         ELSE Parsed("Ok", j, <<>>)

\* lwsp_chars: fold_many1 of a space or a tab
lwsp_chars(inp, i) ==
    IF i > Len(inp) THEN Parsed("Incomplete", i, <<>>)
    ELSE IF inp[i] \notin Lwsp THEN Parsed("Error", i, <<>>)
    ELSE LET j == SkipWhile(inp, i, Lwsp) IN
         IF j > Len(inp) THEN Parsed("Incomplete", i, <<>>)
         ELSE Parsed("Ok", j, <<>>)

\* text that fails where it needs more input
text_or_error(inp, i) ==
    LET j == FindCrLf(inp, i) IN
    IF j = 0 THEN Parsed("Error", i, <<>>)
    ELSE Parsed("Ok", j, SubSeq(inp, i, j - 1))

\* text: take_until("\r\n")
text(inp, i) ==
    LET j == FindCrLf(inp, i) IN
    IF j = 0 THEN Parsed("Incomplete", i, <<>>)
    ELSE Parsed("Ok", j, SubSeq(inp, i, j - 1))

\* quoted_string: '"', then escaped(take_while(not '"', '\\', '\r'), '\\',
\* anychar), then '"'.  take_while never fails, so escaped stops at the first
\* '"', '\\' or '\r' and its escape branch is never taken.
quoted_string(inp, i) ==
    LET open == char(inp, i, 34)
        j == SkipUntil(inp, i + 1, {34, 92, CR}) IN
    IF open.st # "Ok" THEN open
    ELSE IF j > Len(inp) THEN Parsed("Incomplete", i, <<>>)
    ELSE IF inp[j] # 34 THEN Parsed("Error", i, <<>>)
    ELSE Parsed("Ok", j + 1, SubSeq(inp, i + 1, j - 1))

\* field_body_contents: alt((quoted_string, text))
field_body_contents(inp, i) ==
    LET q == quoted_string(inp, i) IN
    IF q.st = "Error" THEN text(inp, i) ELSE q

RECURSIVE field_body(_, _)
\* field_body: the contents, and after CRLF and white space a further body,
\* which is appended to the contents
field_body(inp, i) ==
    LET c == field_body_contents(inp, i) IN
    IF c.st # "Ok" THEN c
    ELSE
    LET e == crlf(inp, c.i) IN
    IF e.st = "Incomplete" THEN e
    ELSE IF e.st = "Error" THEN c
    ELSE
    LET w == lwsp_chars(inp, e.i) IN
    IF w.st = "Incomplete" THEN w
    ELSE IF w.st = "Error" THEN c
    ELSE
    LET cont == field_body(inp, w.i) IN
    IF cont.st = "Incomplete" THEN cont
    ELSE IF cont.st = "Error" THEN c
    ELSE Parsed("Ok", cont.i, c.out \o cont.out)

\* field: name, ':' between optional spaces, body, CRLF.  out is <<key, value>>
\* and the rest of the input starts at i.
field(inp) ==
    LET name == field_name(inp, 1) IN
    IF name.st # "Ok" THEN name
    ELSE
    LET s1 == space0(inp, name.i) IN
    IF s1.st # "Ok" THEN s1
    ELSE
    LET colon == char(inp, s1.i, 58) IN
    IF colon.st # "Ok" THEN colon
    ELSE
    LET s2 == space0(inp, colon.i) IN
    IF s2.st # "Ok" THEN s2
    ELSE
    LET body == field_body(inp, s2.i) IN
    IF body.st # "Ok" THEN body
    ELSE
    LET end == crlf(inp, body.i) IN
    IF end.st # "Ok" THEN end
    ELSE Parsed("Ok", end.i, <<name.out, body.out>>)

\* HashMap::new()
NoHeaders == [k \in {} |-> <<>>]

\* HashMap::insert
insert(map, key, value) ==
    [k \in DOMAIN map \cup {key} |-> IF k = key THEN value ELSE map[k]]

---------------------------------------------------------------------------

(* metadata/mod.rs: the typed metadata.  The string constants are written  *)
(* as the bytes of their ASCII text.                                       *)

\* matches the first entry <<text, result>> of table whose text is s
Lookup(table, s, default) ==
    IF \E k \in 1..Len(table) : table[k][1] = s
    THEN table[CHOOSE k \in 1..Len(table) : table[k][1] = s][2]
    ELSE default

\* Encoding::from_str
Encoding_from_str(s) ==
    LET e == Lookup(<< <<<<120, 45, 98, 97, 115, 101, 56>>, "Base8">>,
                       <<<<120, 45, 98, 97, 115, 101, 49, 48>>, "Base10">>,
                       <<<<120, 45, 98, 97, 115, 101, 49, 54>>, "Base16">>,
                       <<<<120, 45, 98, 97, 115, 101, 51, 50, 107>>, "Base32K">>,
                       <<<<98, 97, 115, 101, 54, 52>>, "Base64">>,
                       <<<<98, 105, 110, 97, 114, 121>>, "Binary">>,
                       <<<<113, 117, 111, 116, 101, 100, 45, 112, 114, 105, 110, 116, 97, 98, 108, 101>>, "QuotedPrintable">> >>,
                    to_lowercase(s), "") IN
    IF e = "" THEN [ok |-> FALSE, error |-> "InvalidEncoding", value |-> ""]
    ELSE [ok |-> TRUE, error |-> "", value |-> e]

\* Charset::from_str
Charset_from_str(s) ==
    LET c == Lookup(<< <<<<117, 115, 45, 97, 115, 99, 105, 105>>, "UsAscii">>,
                       <<<<117, 116, 102, 45, 56>>, "UTF8">>,
                       <<<<117, 116, 102, 45, 49, 54>>, "UTF16">> >>,
                    to_lowercase(s), "") IN
    IF c = "" THEN [ok |-> FALSE, error |-> "InvalidCharset", value |-> ""]
    ELSE [ok |-> TRUE, error |-> "", value |-> c]

\* ByteOrder::from_str
ByteOrder_from_str(s) ==
    LET b == Lookup(<< <<<<108, 105, 116, 116, 108, 101, 95, 101, 110, 100, 105, 97, 110>>, "LittleEndian">>,
                       <<<<98, 105, 103, 95, 101, 110, 100, 105, 97, 110>>, "BigEndian">> >>,
                    to_lowercase(s), "") IN
    IF b = "" THEN [ok |-> FALSE, error |-> "InvalidByteOrder", value |-> ""]
    ELSE [ok |-> TRUE, error |-> "", value |-> b]

\* ElementType::from_str
ElementType_from_str(s) ==
    LET t == Lookup(<< <<<<117, 110, 115, 105, 103, 110, 101, 100, 32, 49, 45, 98, 105, 116, 32, 105, 110, 116, 101, 103, 101, 114>>, "Unsigned1bitInteger">>,
                       <<<<117, 110, 115, 105, 103, 110, 101, 100, 32, 56, 45, 98, 105, 116, 32, 105, 110, 116, 101, 103, 101, 114>>, "Unsigned8bitInteger">>,
                       <<<<115, 105, 103, 110, 101, 100, 32, 56, 45, 98, 105, 116, 32, 105, 110, 116, 101, 103, 101, 114>>, "Signed8bitInteger">>,
                       <<<<117, 110, 115, 105, 103, 110, 101, 100, 32, 49, 54, 45, 98, 105, 116, 32, 105, 110, 116, 101, 103, 101, 114>>, "Unsigned16bitInteger">>,
                       <<<<115, 105, 103, 110, 101, 100, 32, 49, 54, 45, 98, 105, 116, 32, 105, 110, 116, 101, 103, 101, 114>>, "Signed16bitInteger">>,
                       <<<<117, 110, 115, 105, 103, 110, 101, 100, 32, 51, 50, 45, 98, 105, 116, 32, 105, 110, 116, 101, 103, 101, 114>>, "Unsigned32bitInteger">>,
                       <<<<115, 105, 103, 110, 101, 100, 32, 51, 50, 45, 98, 105, 116, 32, 105, 110, 116, 101, 103, 101, 114>>, "Signed32bitInteger">>,
                       <<<<115, 105, 103, 110, 101, 100, 32, 51, 50, 45, 98, 105, 116, 32, 114, 101, 97, 108, 32, 105, 101, 101, 101>>, "Signed32bitReal">>,
                       <<<<115, 105, 103, 110, 101, 100, 32, 54, 52, 45, 98, 105, 116, 32, 114, 101, 97, 108, 32, 105, 101, 101, 101>>, "Signed64bitReal">>,
                       <<<<115, 105, 103, 110, 101, 100, 32, 51, 50, 45, 98, 105, 116, 32, 99, 111, 109, 112, 108, 101, 120, 32, 105, 101, 101, 101>>, "Signed32bitComplex">> >>,
                    to_lowercase(s), "") IN
    IF t = "" THEN [ok |-> FALSE, error |-> "InvalidElementType", value |-> ""]
    ELSE [ok |-> TRUE, error |-> "", value |-> t]

RECURSIVE params_loop(_, _, _, _)
\* the loop of parse_params_to_conversion over the parameters from index k on:
\* conversion is "None" or the variant selected so far, packed_kind likewise
params_loop(parts, k, conversion, packed_kind) ==
    IF k > Len(parts)
    THEN [ok |-> TRUE, error |-> "", conversion |-> conversion,
          packed_kind |-> IF conversion = "Packed" THEN packed_kind ELSE "None"]
    ELSE
    LET param == trim(parts[k]) IN
    IF starts_with(param, <<99, 111, 110, 118, 101, 114, 115, 105, 111, 110, 115, 61>>)
    THEN LET name == trim_matches(SubSeq(param, Len(<<99, 111, 110, 118, 101, 114, 115, 105, 111, 110, 115, 61>>) + 1, Len(param)),
                                  WhitespaceOrQuote)
             c == Lookup(<< <<<<120, 45, 99, 98, 102, 95, 112, 97, 99, 107, 101, 100>>, "Packed">>,
                            <<<<120, 45, 99, 98, 102, 95, 99, 97, 110, 111, 110, 105, 99, 97, 108>>, "Canonical">>,
                            <<<<120, 45, 99, 98, 102, 95, 98, 121, 116, 101, 95, 111, 102, 102, 115, 101, 116>>, "ByteOffset">>,
                            <<<<120, 45, 99, 98, 102, 95, 98, 97, 99, 107, 103, 114, 111, 117, 110, 100, 95, 111, 102, 102, 115, 101, 116, 95, 100, 101, 108, 116, 97>>, "BackgroundOffsetDelta">> >>,
                         name, "") IN
         IF c = ""
         THEN [ok |-> FALSE, error |-> "InvalidConversion", conversion |-> "None",
               packed_kind |-> "None"]
         ELSE params_loop(parts, k + 1, c, packed_kind)
    ELSE IF starts_with(param, <<117, 110, 99, 111, 114, 114, 101, 108, 97, 116, 101, 100, 95, 115, 101, 99, 116, 105, 111, 110, 115>>)
    THEN params_loop(parts, k + 1, conversion, "UncorrelatedSections")
    ELSE IF starts_with(param, <<102, 108, 97, 116>>)
    THEN params_loop(parts, k + 1, conversion, "Flat")
    ELSE params_loop(parts, k + 1, conversion, packed_kind)

\* parse_params_to_conversion that takes the packed kind only from the tokens
\* after the first conversions= token
parse_params_to_conversion_in_order(params) ==
    LET parts == split(to_lowercase(params), 59)
        tokens == {k \in 1..Len(parts) :
                      starts_with(trim(parts[k]), <<99, 111, 110, 118, 101, 114, 115, 105, 111, 110, 115, 61>>)} IN
    params_loop(parts,
                IF tokens = {} THEN 1 ELSE CHOOSE k \in tokens : \A m \in tokens : k <= m,
                "None", "None")

\* parse_params_to_conversion
parse_params_to_conversion(params) ==
    params_loop(split(to_lowercase(params), 59), 1, "None", "None")

NoContentType ==
    [mime_type |-> <<>>, subtype |-> <<>>, conversion |-> "None", packed_kind |-> "None"]

\* ContentType::from_str
ContentType_from_str(s) ==
    LET semi == IndexOf(s, 59)
        type_ == IF semi = 0 THEN s ELSE SubSeq(s, 1, semi - 1)
        slash == IndexOf(type_, 47)
        conv == IF semi = 0
                THEN [ok |-> TRUE, error |-> "", conversion |-> "None",
                      packed_kind |-> "None"]
                ELSE parse_params_to_conversion(SubSeq(s, semi + 1, Len(s))) IN
    IF slash = 0
    THEN [ok |-> FALSE, error |-> "InvalidContentType", value |-> NoContentType]
    ELSE IF ~conv.ok
    THEN [ok |-> FALSE, error |-> conv.error, value |-> NoContentType]
    ELSE [ok |-> TRUE, error |-> "",
          value |-> [mime_type |-> to_lowercase(SubSeq(type_, 1, slash - 1)),
                     subtype |-> to_lowercase(SubSeq(type_, slash + 1, Len(type_))),
                     conversion |-> conv.conversion,
                     packed_kind |-> conv.packed_kind]]

NoContentTransferEncoding == [encoding |-> "", charset |-> "None"]

\* ContentTransferEncoding::from_str
ContentTransferEncoding_from_str(s) ==
    LET parts == split(to_lowercase(s), 59)
        encoding == Encoding_from_str(trim(parts[1]))
        found == {k \in 2..Len(parts) : starts_with(trim(parts[k]), <<99, 104, 97, 114, 115, 101, 116, 61>>)}
        first == CHOOSE k \in found : \A m \in found : k <= m
        pieces == split(trim(parts[first]), 61)
        charset == Charset_from_str(trim_matches(pieces[2], WhitespaceOrQuote)) IN
    IF ~encoding.ok
    THEN [ok |-> FALSE, error |-> encoding.error, value |-> NoContentTransferEncoding]
    ELSE IF found = {}
    THEN [ok |-> TRUE, error |-> "",
          value |-> [encoding |-> encoding.value, charset |-> "None"]]
    ELSE IF ~charset.ok
    THEN [ok |-> FALSE, error |-> charset.error, value |-> NoContentTransferEncoding]
    ELSE [ok |-> TRUE, error |-> "",
          value |-> [encoding |-> encoding.value, charset |-> charset.value]]

\* Option<usize>
None == [some |-> FALSE, value |-> 0]
Some(n) == [some |-> TRUE, value |-> n]

NoMetadata ==
    [content_type |-> NoContentType,
     content_transfer_encoding |-> NoContentTransferEncoding,
     size |-> 0, padding |-> None, byte_order |-> "", md5_digest |-> <<>>,
     element_type |-> "", element_count |-> 0,
     width |-> None, height |-> None, depth |-> None]

\* field!(name, error) for an Option<usize>
usize_field(map, name, error) ==
    IF name \notin DOMAIN map THEN [ok |-> TRUE, error |-> "", value |-> None]
    ELSE LET n == parse_usize(map[name]) IN
         IF n.ok THEN [ok |-> TRUE, error |-> "", value |-> Some(n.value)]
         ELSE [ok |-> FALSE, error |-> error, value |-> None]

\* required_field!(name, error, missing) with the two errors in the place of
\* each other
required_usize_field_swapped(map, name, error, missing) ==
    LET f == usize_field(map, name, missing) IN
    IF ~f.ok THEN [ok |-> FALSE, error |-> f.error, value |-> 0]
    ELSE IF ~f.value.some THEN [ok |-> FALSE, error |-> error, value |-> 0]
    ELSE [ok |-> TRUE, error |-> "", value |-> f.value.value]

\* required_field!(name, error, missing) for a usize
required_usize_field(map, name, error, missing) ==
    LET f == usize_field(map, name, error) IN
    IF ~f.ok THEN [ok |-> FALSE, error |-> f.error, value |-> 0]
    ELSE IF ~f.value.some THEN [ok |-> FALSE, error |-> missing, value |-> 0]
    ELSE [ok |-> TRUE, error |-> "", value |-> f.value.value]

\* headers.get(name), with the empty string for None
get(map, name) == IF name \in DOMAIN map THEN map[name] ELSE <<>>

\* required_field!(name, missing): parsed is the parse of headers.get(name)
\* and gives the error when the header is there and does not parse
required_field(map, name, parsed, missing, default) ==
    IF name \notin DOMAIN map
    THEN [ok |-> FALSE, error |-> missing, value |-> default]
    ELSE parsed

\* the names of the headers that parse_metadata gets
key_content_type ==   \* "content-type"
    <<99, 111, 110, 116, 101, 110, 116, 45, 116, 121, 112, 101>>
key_content_transfer_encoding ==   \* "content-transfer-encoding"
    <<99, 111, 110, 116, 101, 110, 116, 45, 116, 114, 97, 110, 115, 102, 101, 114, 45, 101, 110, 99, 111, 100, 105, 110, 103>>
key_x_binary_size ==   \* "x-binary-size"
    <<120, 45, 98, 105, 110, 97, 114, 121, 45, 115, 105, 122, 101>>
key_x_binary_size_padding ==   \* "x-binary-size-padding"
    <<120, 45, 98, 105, 110, 97, 114, 121, 45, 115, 105, 122, 101, 45, 112, 97, 100, 100, 105, 110, 103>>
key_x_binary_element_byte_order ==   \* "x-binary-element-byte-order"
    <<120, 45, 98, 105, 110, 97, 114, 121, 45, 101, 108, 101, 109, 101, 110, 116, 45, 98, 121, 116, 101, 45, 111, 114, 100, 101, 114>>
key_x_binary_element_type ==   \* "x-binary-element-type"
    <<120, 45, 98, 105, 110, 97, 114, 121, 45, 101, 108, 101, 109, 101, 110, 116, 45, 116, 121, 112, 101>>
key_x_binary_number_of_elements ==   \* "x-binary-number-of-elements"
    <<120, 45, 98, 105, 110, 97, 114, 121, 45, 110, 117, 109, 98, 101, 114, 45, 111, 102, 45, 101, 108, 101, 109, 101, 110, 116, 115>>
key_x_binary_size_fastest_dimension ==   \* "x-binary-size-fastest-dimension"
    <<120, 45, 98, 105, 110, 97, 114, 121, 45, 115, 105, 122, 101, 45, 102, 97, 115, 116, 101, 115, 116, 45, 100, 105, 109, 101, 110, 115, 105, 111, 110>>
key_x_binary_size_second_dimension ==   \* "x-binary-size-second-dimension"
    <<120, 45, 98, 105, 110, 97, 114, 121, 45, 115, 105, 122, 101, 45, 115, 101, 99, 111, 110, 100, 45, 100, 105, 109, 101, 110, 115, 105, 111, 110>>
key_x_binary_size_third_dimension ==   \* "x-binary-size-third-dimension"
    <<120, 45, 98, 105, 110, 97, 114, 121, 45, 115, 105, 122, 101, 45, 116, 104, 105, 114, 100, 45, 100, 105, 109, 101, 110, 115, 105, 111, 110>>
key_content_md5 ==   \* "content-md5"
    <<99, 111, 110, 116, 101, 110, 116, 45, 109, 100, 53>>

\* parse_metadata: the fields are built in the order of the struct literal and
\* the first that fails gives the error
parse_metadata(map) ==
    LET content_type ==
            required_field(map, key_content_type,
                           ContentType_from_str(get(map, key_content_type)),
                           "MissingContentType", NoContentType)
        content_transfer_encoding ==
            required_field(map, key_content_transfer_encoding,
                           ContentTransferEncoding_from_str(get(map, key_content_transfer_encoding)),
                           "MissingContentTransferEncoding", NoContentTransferEncoding)
        size == required_usize_field(map, key_x_binary_size, "InvalidSize", "MissingSize")
        padding == usize_field(map, key_x_binary_size_padding, "InvalidPadding")
        byte_order ==
            required_field(map, key_x_binary_element_byte_order,
                           ByteOrder_from_str(get(map, key_x_binary_element_byte_order)),
                           "MissingByteOrder", "")
        element_type ==
            required_field(map, key_x_binary_element_type,
                           ElementType_from_str(get(map, key_x_binary_element_type)),
                           "MissingElementType", "")
        element_count ==
            required_usize_field(map, key_x_binary_number_of_elements,
                                 "InvalidElementCount", "MissingElementCount")
        width == usize_field(map, key_x_binary_size_fastest_dimension, "InvalidWidth")
        height == usize_field(map, key_x_binary_size_second_dimension, "InvalidHeight")
        depth == usize_field(map, key_x_binary_size_third_dimension, "InvalidDepth")
        md5_digest ==
            IF key_content_md5 \in DOMAIN map THEN map[key_content_md5] ELSE <<>>
        errors == << <<content_type.ok, content_type.error>>,
                     <<content_transfer_encoding.ok, content_transfer_encoding.error>>,
                     <<size.ok, size.error>>,
                     <<padding.ok, padding.error>>,
                     <<byte_order.ok, byte_order.error>>,
                     <<element_type.ok, element_type.error>>,
                     <<element_count.ok, element_count.error>>,
                     <<width.ok, width.error>>,
                     <<height.ok, height.error>>,
                     <<depth.ok, depth.error>> >>
        failed == {k \in 1..Len(errors) : ~errors[k][1]}
        first == CHOOSE k \in failed : \A m \in failed : k <= m IN
    IF failed # {}
    THEN [ok |-> FALSE, error |-> errors[first][2], metadata |-> NoMetadata]
    ELSE [ok |-> TRUE, error |-> "",
          metadata |-> [content_type |-> content_type.value,
                        content_transfer_encoding |-> content_transfer_encoding.value,
                        size |-> size.value,
                        padding |-> padding.value,
                        byte_order |-> byte_order.value,
                        md5_digest |-> md5_digest,
                        element_type |-> element_type.value,
                        element_count |-> element_count.value,
                        width |-> width.value,
                        height |-> height.value,
                        depth |-> depth.value]]

---------------------------------------------------------------------------

(* lib.rs *)

\* the needle of progress_reader_to_cbf_start
StartSentinel == <<45, 45, 67, 73, 70, 45, 66, 73, 78, 65, 82, 89, 45, 70, 79, 82, 77, 65, 84, 45, 83, 69, 67, 84, 73, 79, 78, 45, 45, 13, 10>>

\* the needle of progress_reader_to_cbf_end
EndSentinel == <<45, 45, 67, 73, 70, 45, 66, 73, 78, 65, 82, 89, 45, 70, 79, 82, 77, 65, 84, 45, 83, 69, 67, 84, 73, 79, 78, 45, 45, 45, 45, 13, 10>>

\* the header of read_binary_header: 0C 1A 04 D5
BinaryHeader == <<12, 26, 4, 213>>

\* one turn of the loop of progress_reader_to: "Needle", "End", "IO" (read_line
\* failed), or "Continue" (the line is discarded and the loop goes on)
progress_reader_to(s, p, needle) ==
    LET r == read_line(s, p, <<>>) IN
    [pos |-> r.pos,
     reached |-> IF ~r.ok THEN "IO"
                 ELSE IF r.n = 0 THEN "End"
                 ELSE IF r.line = needle THEN "Needle"
                 ELSE "Continue"]

\* progress_reader_to_cbf_start that takes a failed read_line for the end of
\* the stream
progress_reader_to_cbf_start_lenient(s, p) ==
    LET r == progress_reader_to(s, p, StartSentinel) IN
    [pos |-> r.pos,
     result |-> CASE r.reached \in {"IO", "End"} -> "NoImage"
                  [] r.reached = "Needle" -> "Ok"
                  [] r.reached = "Continue" -> "Continue"]

\* progress_reader_to_cbf_start: one turn of the loop; Reached::End is NoImage
progress_reader_to_cbf_start(s, p) ==
    LET r == progress_reader_to(s, p, StartSentinel) IN
    [pos |-> r.pos,
     result |-> CASE r.reached = "IO" -> "IO(InvalidData)"
                  [] r.reached = "End" -> "NoImage"
                  [] r.reached = "Needle" -> "Ok"
                  [] r.reached = "Continue" -> "Continue"]

\* progress_reader_to_cbf_end that does not stop at the end sentinel line
progress_reader_to_cbf_end_of_stream(s, p) ==
    LET r == progress_reader_to(s, p, EndSentinel) IN
    [pos |-> r.pos,
     result |-> CASE r.reached = "IO" -> "IO(InvalidData)"
                  [] r.reached = "End" -> "Ok"
                  [] r.reached \in {"Needle", "Continue"} -> "Continue"]

\* progress_reader_to_cbf_end: one turn of the loop; what was reached is dropped
progress_reader_to_cbf_end(s, p) ==
    LET r == progress_reader_to(s, p, EndSentinel) IN
    [pos |-> r.pos,
     result |-> CASE r.reached = "IO" -> "IO(InvalidData)"
                  [] r.reached \in {"End", "Needle"} -> "Ok"
                  [] r.reached = "Continue" -> "Continue"]

\* read_binary_header without the comparison
read_binary_header_unchecked(s, p) ==
    LET header == read_n_bytes(4, s, p) IN
    [pos |-> header.pos,
     result |-> IF ~header.ok THEN "IO(UnexpectedEof)" ELSE "Ok"]

\* read_binary_header with a header of 5 bytes, the first 4 compared
read_binary_header_of_5(s, p) ==
    LET header == read_n_bytes(5, s, p) IN
    [pos |-> header.pos,
     result |-> IF ~header.ok THEN "IO(UnexpectedEof)"
                ELSE IF SubSeq(header.bytes, 1, 4) # BinaryHeader
                THEN "UnrecognisedBinaryHeader"
                ELSE "Ok"]

\* read_binary_header
read_binary_header(s, p) ==
    LET header == read_n_bytes(4, s, p) IN
    [pos |-> header.pos,
     result |-> IF ~header.ok THEN "IO(UnexpectedEof)"
                ELSE IF header.bytes # BinaryHeader THEN "UnrecognisedBinaryHeader"
                ELSE "Ok"]

\* the arms of the macro read_byte_offset! of read_pixels: the type of the
\* pixels of an element type, "" for an element type without an arm
PixelTypeOf(element_type) ==
    CASE element_type = "Unsigned8bitInteger" -> "u8"
      [] element_type = "Signed8bitInteger" -> "i8"
      [] element_type = "Unsigned16bitInteger" -> "u16"
      [] element_type = "Signed16bitInteger" -> "i16"
      [] element_type = "Unsigned32bitInteger" -> "u32"
      [] element_type = "Signed32bitInteger" -> "i32"
      [] OTHER -> ""

\* read_pixels that looks at the encoding before the byte order and the
\* content type
read_pixels_check_encoding_first(m) ==
    IF m.content_transfer_encoding.encoding # "Binary" THEN "UnsupportedEncoding"
    ELSE IF m.byte_order # "LittleEndian" THEN "UnsupportedByteOrder"
    ELSE IF \/ m.content_type.mime_type # <<97, 112, 112, 108, 105, 99, 97, 116, 105, 111, 110>>
            \/ m.content_type.subtype # <<111, 99, 116, 101, 116, 45, 115, 116, 114, 101, 97, 109>>
    THEN "UnsupportedContentType"
    ELSE IF m.content_type.conversion # "ByteOffset" THEN "UnsupportedCompression"
    ELSE IF PixelTypeOf(m.element_type) = "" THEN "UnsupportedPixelFormat"
    ELSE "Ok"

\* read_pixels that looks at the element type before the conversion
read_pixels_check_type_first(m) ==
    IF m.byte_order # "LittleEndian" THEN "UnsupportedByteOrder"
    ELSE IF \/ m.content_type.mime_type # <<97, 112, 112, 108, 105, 99, 97, 116, 105, 111, 110>>
            \/ m.content_type.subtype # <<111, 99, 116, 101, 116, 45, 115, 116, 114, 101, 97, 109>>
    THEN "UnsupportedContentType"
    ELSE IF m.content_transfer_encoding.encoding # "Binary" THEN "UnsupportedEncoding"
    ELSE IF PixelTypeOf(m.element_type) = "" THEN "UnsupportedPixelFormat"
    ELSE IF m.content_type.conversion # "ByteOffset" THEN "UnsupportedCompression"
    ELSE "Ok"

\* read_pixels up to the call of read_byte_offset: the error it returns before
\* it reads a byte, or "Ok" when it goes on to decode
read_pixels_check(m) ==
    IF m.byte_order # "LittleEndian" THEN "UnsupportedByteOrder"
    ELSE IF \/ m.content_type.mime_type # <<97, 112, 112, 108, 105, 99, 97, 116, 105, 111, 110>>
            \/ m.content_type.subtype # <<111, 99, 116, 101, 116, 45, 115, 116, 114, 101, 97, 109>>
    THEN "UnsupportedContentType"
    ELSE IF m.content_transfer_encoding.encoding # "Binary" THEN "UnsupportedEncoding"
    ELSE IF m.content_type.conversion # "ByteOffset" THEN "UnsupportedCompression"
    ELSE IF PixelTypeOf(m.element_type) = "" THEN "UnsupportedPixelFormat"
    ELSE "Ok"

\* the calls of read_image, in the order of its body, with the two calls of
\* read_metadata in the place of read_metadata
ReadImageSteps ==
    <<"progress_reader_to_cbf_start", "read_headers", "parse_metadata",
      "read_binary_header", "read_pixels", "progress_reader_to_cbf_end", "Image">>

---------------------------------------------------------------------------

(* The inputs. *)

\* encoded samples: each is one whole escape chain
Chunks ==
    { <<66>>,                                      \* 42
      <<36>>,                                      \* 24
      <<255>>,                                     \* FF
      <<128, 32, 4>>,                              \* 80 20 04
      <<128, 255, 127>>,                           \* 80 FF 7F
      <<128, 255, 255>>,                           \* 80 FF FF
      <<128, 0, 128, 32, 4, 32, 4>>,               \* 80 00 80 20 04 20 04
      <<128, 0, 128, 255, 255, 255, 127>>,         \* 80 00 80 FF FF FF 7F
      <<128, 0, 128, 0, 0, 0, 128,
        32, 4, 32, 4, 32, 4, 32, 132>> }           \* the 64-bit step

RECURSIVE ChunkStreams(_)
\* the concatenations of at most n chunks
ChunkStreams(n) ==
    IF n = 0 THEN {<<>>}
    ELSE LET shorter == ChunkStreams(n - 1) IN
         shorter \cup {s \o c : s \in shorter, c \in Chunks}

\* every payload of at most MaxChunks chunks, whole or cut short anywhere
Payloads ==
    UNION {{SubSeq(s, 1, n) : n \in 0..Len(s)} : s \in ChunkStreams(MaxChunks)}

\* header fields, written with the names parse_metadata looks up
ContentTypeField ==
    <<99, 111, 110, 116, 101, 110, 116, 45, 116, 121, 112, 101, 58, 32, 97, 112, 112, 108, 105, 99, 97, 116, 105, 111, 110, 47, 111, 99, 116, 101, 116, 45, 115, 116, 114, 101, 97, 109, 59, 13, 10, 32, 32, 32, 32, 32, 99, 111, 110, 118, 101, 114, 115, 105, 111, 110, 115, 61, 34, 120, 45, 67, 66, 70, 95, 66, 89, 84, 69, 95, 79, 70, 70, 83, 69, 84, 34, 13, 10>>
PackedContentTypeField ==
    <<99, 111, 110, 116, 101, 110, 116, 45, 116, 121, 112, 101, 58, 32, 97, 112, 112, 108, 105, 99, 97, 116, 105, 111, 110, 47, 111, 99, 116, 101, 116, 45, 115, 116, 114, 101, 97, 109, 59, 99, 111, 110, 118, 101, 114, 115, 105, 111, 110, 115, 61, 34, 120, 45, 67, 66, 70, 95, 80, 65, 67, 75, 69, 68, 34, 13, 10>>
EncodingField == <<99, 111, 110, 116, 101, 110, 116, 45, 116, 114, 97, 110, 115, 102, 101, 114, 45, 101, 110, 99, 111, 100, 105, 110, 103, 58, 32, 66, 73, 78, 65, 82, 89, 13, 10>>
SizeField == <<120, 45, 98, 105, 110, 97, 114, 121, 45, 115, 105, 122, 101, 58, 32, 32, 32, 50, 13, 10>>
ByteOrderField == <<120, 45, 98, 105, 110, 97, 114, 121, 45, 101, 108, 101, 109, 101, 110, 116, 45, 98, 121, 116, 101, 45, 111, 114, 100, 101, 114, 58, 32, 76, 73, 84, 84, 76, 69, 95, 69, 78, 68, 73, 65, 78, 13, 10>>
BigEndianField == <<120, 45, 98, 105, 110, 97, 114, 121, 45, 101, 108, 101, 109, 101, 110, 116, 45, 98, 121, 116, 101, 45, 111, 114, 100, 101, 114, 58, 32, 66, 73, 71, 95, 69, 78, 68, 73, 65, 78, 13, 10>>
I32Field == <<120, 45, 98, 105, 110, 97, 114, 121, 45, 101, 108, 101, 109, 101, 110, 116, 45, 116, 121, 112, 101, 58, 32, 34, 115, 105, 103, 110, 101, 100, 32, 51, 50, 45, 98, 105, 116, 32, 105, 110, 116, 101, 103, 101, 114, 34, 13, 10>>
U8Field == <<120, 45, 98, 105, 110, 97, 114, 121, 45, 101, 108, 101, 109, 101, 110, 116, 45, 116, 121, 112, 101, 58, 32, 34, 117, 110, 115, 105, 103, 110, 101, 100, 32, 56, 45, 98, 105, 116, 32, 105, 110, 116, 101, 103, 101, 114, 34, 13, 10>>
CountField == <<120, 45, 98, 105, 110, 97, 114, 121, 45, 110, 117, 109, 98, 101, 114, 45, 111, 102, 45, 101, 108, 101, 109, 101, 110, 116, 115, 58, 32, 50, 13, 10>>
WidthField == <<120, 45, 98, 105, 110, 97, 114, 121, 45, 115, 105, 122, 101, 45, 102, 97, 115, 116, 101, 115, 116, 45, 100, 105, 109, 101, 110, 115, 105, 111, 110, 58, 32, 50, 13, 10>>
HeightField == <<120, 45, 98, 105, 110, 97, 114, 121, 45, 115, 105, 122, 101, 45, 115, 101, 99, 111, 110, 100, 45, 100, 105, 109, 101, 110, 115, 105, 111, 110, 58, 32, 49, 13, 10>>
BlankLine == <<13, 10>>

\* a header block as the reference file writes its field names
ReferenceHeader ==
    <<67, 111, 110, 116, 101, 110, 116, 45, 84, 121, 112, 101, 58, 32, 97, 112, 112, 108, 105, 99, 97, 116, 105, 111, 110, 47, 111, 99, 116, 101, 116, 45, 115, 116, 114, 101, 97, 109, 59, 13, 10, 32, 32, 32, 32, 32, 99, 111, 110, 118, 101, 114, 115, 105, 111, 110, 115, 61, 34, 120, 45, 67, 66, 70, 95, 66, 89, 84, 69, 95, 79, 70, 70, 83, 69, 84, 34, 13, 10>>
    \o <<67, 111, 110, 116, 101, 110, 116, 45, 84, 114, 97, 110, 115, 102, 101, 114, 45, 69, 110, 99, 111, 100, 105, 110, 103, 58, 32, 66, 73, 78, 65, 82, 89, 13, 10>>
    \o <<88, 45, 66, 105, 110, 97, 114, 121, 45, 83, 105, 122, 101, 58, 32, 50, 13, 10>>
    \o <<88, 45, 66, 105, 110, 97, 114, 121, 45, 69, 108, 101, 109, 101, 110, 116, 45, 84, 121, 112, 101, 58, 32, 34, 115, 105, 103, 110, 101, 100, 32, 51, 50, 45, 98, 105, 116, 32, 105, 110, 116, 101, 103, 101, 114, 34, 13, 10>>
    \o <<88, 45, 66, 105, 110, 97, 114, 121, 45, 69, 108, 101, 109, 101, 110, 116, 45, 66, 121, 116, 101, 45, 79, 114, 100, 101, 114, 58, 32, 76, 73, 84, 84, 76, 69, 95, 69, 78, 68, 73, 65, 78, 13, 10>>
    \o <<88, 45, 66, 105, 110, 97, 114, 121, 45, 78, 117, 109, 98, 101, 114, 45, 111, 102, 45, 69, 108, 101, 109, 101, 110, 116, 115, 58, 32, 50, 13, 10>>
    \o <<88, 45, 66, 105, 110, 97, 114, 121, 45, 83, 105, 122, 101, 45, 70, 97, 115, 116, 101, 115, 116, 45, 68, 105, 109, 101, 110, 115, 105, 111, 110, 58, 32, 50, 13, 10>>
    \o <<88, 45, 66, 105, 110, 97, 114, 121, 45, 83, 105, 122, 101, 45, 83, 101, 99, 111, 110, 100, 45, 68, 105, 109, 101, 110, 115, 105, 111, 110, 58, 32, 49, 13, 10>>
    \o BlankLine

\* the header block of a section: its content type, byte order, element type
\* and dimension fields are given
Header(content_type, byte_order, element_type, dimensions) ==
    EncodingField \o SizeField \o element_type \o byte_order \o CountField
    \o dimensions \o content_type \o BlankLine

GoodHeader == Header(ContentTypeField, ByteOrderField, I32Field, WidthField \o HeightField)

TextLine == <<59, 13, 10>>

\* the pieces a stream is put together from: sections, whole or damaged, and
\* lines that belong to no section
Pieces ==
    { \* a whole section of two i32 samples, 42 24
      StartSentinel \o GoodHeader \o BinaryHeader \o <<66, 36>> \o BlankLine \o EndSentinel,
      \* a whole section of two u8 samples, 24 FF, and a line of text after it
      StartSentinel
        \o Header(ContentTypeField, ByteOrderField, U8Field, WidthField \o HeightField)
        \o BinaryHeader \o <<36, 255>> \o BlankLine \o EndSentinel \o TextLine,
      \* a section without its end sentinel
      StartSentinel \o GoodHeader \o BinaryHeader \o <<128, 32, 4, 255>>,
      \* a section of three u8 samples that ends after the second, 24 FF
      StartSentinel \o EncodingField \o SizeField \o U8Field \o ByteOrderField
        \o <<120, 45, 98, 105, 110, 97, 114, 121, 45, 110, 117, 109, 98, 101, 114, 45, 111, 102, 45, 101, 108, 101, 109, 101, 110, 116, 115, 58, 32, 51, 13, 10>> \o WidthField \o HeightField
        \o ContentTypeField \o BlankLine \o BinaryHeader \o <<36, 255>>,
      \* a section whose payload stops in the escape chain of its second sample
      StartSentinel \o GoodHeader \o BinaryHeader \o <<66, 128, 0>>,
      \* a section with a wrong binary header
      StartSentinel \o GoodHeader \o <<12, 26, 4, 0>> \o <<66, 36>> \o BlankLine \o EndSentinel,
      \* a section without the dimension fields
      StartSentinel \o Header(ContentTypeField, ByteOrderField, I32Field, <<>>)
        \o BinaryHeader \o <<66, 36>> \o BlankLine \o EndSentinel,
      \* a section with the field names of the reference file
      StartSentinel \o ReferenceHeader \o BinaryHeader \o <<66, 36>> \o BlankLine
        \o EndSentinel \o TextLine,
      \* a section in big endian byte order
      StartSentinel \o Header(ContentTypeField, BigEndianField, I32Field, WidthField \o HeightField)
        \o BinaryHeader \o <<66, 36>> \o BlankLine \o EndSentinel,
      \* a section in the packed compression
      StartSentinel \o Header(PackedContentTypeField, ByteOrderField, I32Field, <<>>)
        \o BinaryHeader \o <<66, 36>> \o BlankLine \o EndSentinel,
      \* a section whose header block has a line without a colon
      StartSentinel \o EncodingField \o <<103, 97, 114, 98, 97, 103, 101, 13, 10>> \o BlankLine,
      \* a section whose header block lacks its blank line
      StartSentinel \o EncodingField,
      \* the header block before the start sentinel, the binary header after it
      GoodHeader \o StartSentinel \o BinaryHeader \o <<66, 36>> \o BlankLine \o EndSentinel,
      \* a line of text
      TextLine,
      \* a start sentinel without its line end
      <<45, 45, 67, 73, 70, 45, 66, 73, 78, 65, 82, 89, 45, 70, 79, 82, 77, 65, 84, 45, 83, 69, 67, 84, 73, 79, 78, 45, 45>>,
      \* a line that is not UTF-8
      <<255, 13, 10>> }

RECURSIVE PieceStreams(_)
\* the concatenations of at most n pieces
PieceStreams(n) ==
    IF n = 0 THEN {<<>>}
    ELSE LET shorter == PieceStreams(n - 1) IN
         shorter \cup {s \o c : s \in shorter, c \in Pieces}

Streams == PieceStreams(MaxPieces)

---------------------------------------------------------------------------
(* image/mod.rs: Image<P>, the trait ImageCoordinate and its two impls.    *)
(* A usize is kept as its 8 bytes, least significant first, so that        *)
(* `width * height - 1` wraps as it does in a build without overflow       *)
(* checks.  The sides and the coordinates of the model are far below 2^24. *)

\* the widest and the highest image
MaxSide == 3

\* `n as usize` for a small n, as 8 bytes
usize(n) == [k \in 1..8 |-> IF k <= 3 THEN (n \div (256 ^ (k - 1))) % 256 ELSE 0]

RECURSIVE lt(_, _)
\* a < b for two unsigned values of one width
lt(a, b) ==
    IF a = <<>> THEN FALSE
    ELSE IF a[Len(a)] # b[Len(b)] THEN a[Len(a)] < b[Len(b)]
    ELSE lt(SubSeq(a, 1, Len(a) - 1), SubSeq(b, 1, Len(b) - 1))

\* a - b modulo 2^W
wrapping_sub(a, b) == wrapping_add_c(a, [k \in 1..Len(b) |-> 255 - b[k]], 1)

\* what a call returned: an Option<usize>, an Option<&P> or a P, with the
\* value, if there is one, as the one element of a sequence; or the panic that
\* came instead of it
SomeValue(v) == [st |-> "Some", value |-> <<v>>]
NoValue == [st |-> "None", value |-> <<>>]
Panicked == [st |-> "panic", value |-> <<>>]
NotCalled == [st |-> "none", value |-> <<>>]

\* <usize as ImageCoordinate>::index
index_usize(self, width, height, checks) ==
    IF checks /\ lt(usize(width * height), usize(1))
    THEN Panicked                    \* attempt to subtract with overflow
    ELSE IF lt(wrapping_sub(usize(width * height), usize(1)), usize(self))
    THEN NoValue
    ELSE SomeValue(self)

\* <(isize, isize) as ImageCoordinate>::index
index_pair(self, width, height, checks) ==
    LET x == self[1] + (width \div 2)
        y == self[2] + (height \div 2) IN
    IF x < 0 \/ y < 0 \/ width < x \/ height < y
    THEN NoValue
    ELSE index_usize(y * width + x, width, height, checks)

\* c.index(width, height), by the type of the coordinate c
index(c, width, height, checks) ==
    IF c.type = "usize"
    THEN index_usize(c.value[1], width, height, checks)
    ELSE index_pair(c.value, width, height, checks)

\* `&self.pixels[i]`: a slice index out of range panics
slice_index(pixels, i) ==
    IF i.st # "Some" THEN i
    ELSE IF i.value[1] < Len(pixels) THEN SomeValue(pixels[i.value[1] + 1])
    ELSE Panicked

\* Image::get_pixel
get_pixel(self, c, checks) ==
    slice_index(self.pixels, index(c, self.width, self.height, checks))

\* an Image<u8> of width x height pixels, the pixel at index i holding i + 1
ImageOf(width, height) ==
    [width |-> width, height |-> height,
     pixels |-> [k \in 1..(width * height) |-> <<k>>]]

\* the images get_pixel is called on
Images == {ImageOf(width, height) : width \in 0..MaxSide, height \in 0..MaxSide}

\* the linear indexes get_pixel is called with
LinearCoordinates ==
    {[type |-> "usize", value |-> <<i>>] : i \in 0..(MaxSide * MaxSide + 1)}

\* the centered coordinates get_pixel is called with
CenteredCoordinates ==
    {[type |-> "pair", value |-> <<x, y>>] :
        x \in (0 - MaxSide)..(MaxSide + 1), y \in (0 - MaxSide)..(MaxSide + 1)}

NoCoordinate == [type |-> "none", value |-> <<>>]

---------------------------------------------------------------------------
(* analysis/average.rs: Average<P> of an integer type P.  The sum is a     *)
(* BigInt, an integer without a width: it is kept in two's complement on   *)
(* BigBytes bytes, which MaxAdded values of 64 bits never fill.  The count *)
(* is a BigInt too and is kept as a number.                                *)

\* the most values added to one Average
MaxAdded == 5

\* the bytes a BigInt is written on: twice those of the widest type
BigBytes == 2 * SizeOf("i64")

\* BigInt::from(value), the conversion `self.sum += value` makes
BigInt_from(T, value) ==
    IF IsSigned(T) THEN SignExtend(value, BigBytes) ELSE ZeroExtend(value, BigBytes)

\* -a
neg(a) == wrapping_sub([k \in 1..Len(a) |-> 0], a)

RECURSIVE rem_from(_, _, _)
\* the remainder by b of the number the bytes k.. of a write
rem_from(a, b, k) ==
    IF k > Len(a) THEN 0 ELSE (rem_from(a, b, k + 1) * 256 + a[k]) % b

\* the quotient of a >= 0 by b > 0, byte by byte from the top
div_magnitude(a, b) ==
    [k \in 1..Len(a) |-> (rem_from(a, b, k + 1) * 256 + a[k]) \div b]

\* a division that rounds toward minus infinity
checked_div_floor(a, b) ==
    IF b = 0 THEN NoValue
    ELSE IF ~IsNegative(a) THEN SomeValue(div_magnitude(a, b))
    ELSE IF rem_from(neg(a), b, 1) = 0 THEN SomeValue(neg(div_magnitude(neg(a), b)))
    ELSE SomeValue(wrapping_sub(neg(div_magnitude(neg(a), b)), BigInt_from("u8", <<1>>)))

\* BigInt::checked_div: None for a zero divisor, else the quotient truncated
\* toward zero
checked_div(a, b) ==
    IF b = 0 THEN NoValue
    ELSE IF IsNegative(a) THEN SomeValue(neg(div_magnitude(neg(a), b)))
    ELSE SomeValue(div_magnitude(a, b))

\* TryInto<P> for BigInt: the value, if the type holds it
try_into(T, r) ==
    IF BigInt_from(T, SubSeq(r, 1, SizeOf(T))) = r
    THEN SomeValue(SubSeq(r, 1, SizeOf(T)))
    ELSE NoValue

\* Option::unwrap
unwrap(option) == IF option.st = "Some" THEN option ELSE Panicked

\* Option::and_then(|r| r.try_into().ok())
and_then_try_into(T, option) ==
    IF option.st = "Some" THEN try_into(T, option.value[1]) ELSE NoValue

\* <P as BigNum>::div of integer_big_num!
div(T, a, b) == unwrap(and_then_try_into(T, checked_div(a, b)))

\* Average::default()
Average_default == [sum |-> BigInt_from("u8", <<0>>), count |-> 0]

\* Average::add
add(self, T, value) ==
    [sum |-> wrapping_add(self.sum, BigInt_from(T, value)),
     count |-> self.count + 1]

\* Average::average
average(self, T) == div(T, self.sum, self.count)

\* T::MAX
Max(T) ==
    [k \in 1..SizeOf(T) |-> IF IsSigned(T) /\ k = SizeOf(T) THEN 127 ELSE 255]

\* T::MIN
Min(T) ==
    [k \in 1..SizeOf(T) |-> IF IsSigned(T) /\ k = SizeOf(T) THEN 128 ELSE 0]

\* the values add is called with: those of the tests big_u8 (121..125) and
\* small_i32 (-1073741821..-1073741825), else those of negative_isize
\* (1, 2, 3, 4 and -5, which is 251 in the low byte of an unsigned type),
\* and the two ends of the type
AddedValues(T) ==
    CASE T = "u8" -> <<<<121>>, <<122>>, <<123>>, <<124>>, <<125>>, Max(T), Min(T)>>
      [] T = "i32" -> << <<3, 0, 0, 192>>, <<2, 0, 0, 192>>, <<1, 0, 0, 192>>,
                         <<0, 0, 0, 192>>, <<255, 255, 255, 191>>, Max(T), Min(T)>>
      [] OTHER -> <<from_1_bytes(T, <<1>>), from_1_bytes(T, <<2>>),
                    from_1_bytes(T, <<3>>), from_1_bytes(T, <<4>>),
                    from_1_bytes(T, <<251>>), Max(T), Min(T)>>

\* no value was added
NothingAdded == [k \in 1..7 |-> 0]

---------------------------------------------------------------------------
(* analysis/mod.rs: AnalysisConfig, allocate_slice, compute_average_slice  *)
(* and the body of the inner loop of radial_difraction_analysis.  The      *)
(* radius of a config is written in thousandths.                           *)

\* the most points along the radius and the most points across it
MaxBins == 2

\* f64::consts::SQRT_2 in thousandths
Sqrt2 == 1414

\* AnalysisConfig::new
AnalysisConfig_new(theta_sample_count, intensity_sample_count, radius) ==
    IF radius < 0 \/ Sqrt2 < radius
    THEN NoValue
    ELSE SomeValue([theta_sample_count |-> theta_sample_count,
                    intensity_sample_count |-> intensity_sample_count,
                    radius |-> radius])

\* allocate_slice(len)
allocate_slice(len) == [k \in 1..len |-> Average_default]

\* `samples[j].add(value)`
samples_add(averages, j, T, value) ==
    [averages EXCEPT ![j + 1] = add(@, T, value)]

\* compute_average_slice: the first average() that panics ends the program
compute_average_slice(averages, T) ==
    IF \E k \in 1..Len(averages) : average(averages[k], T).st = "panic"
    THEN Panicked
    ELSE SomeValue([k \in 1..Len(averages) |-> average(averages[k], T).value[1]])

\* what sampler_method returns: 0 for None, else the place of the value in
\* AddedValues(P)
SamplerReturns == {0, 4, 5}

\* the variables of radial_difraction_analysis where it is not called
NoRadial ==
    /\ config = [theta_sample_count |-> 0, intensity_sample_count |-> 0, radius |-> 0]
    /\ samples = <<>>
    /\ angle_index = 0
    /\ radius_index = 0
    /\ sampler_calls = <<>>
    /\ profile = NotCalled

\* the variables of image/ and analysis/ where nothing was called
NoAnalysis ==
    /\ sampled = ImageOf(0, 0)
    /\ coordinate = NoCoordinate
    /\ index_result = NotCalled
    /\ pixel = NotCalled
    /\ accumulator = Average_default
    /\ added = NothingAdded
    /\ mean = NotCalled
    /\ NoRadial

---------------------------------------------------------------------------
(* The state machine. *)

NoImageValue == [width |-> 0, height |-> 0, pixels |-> [type |-> "", data |-> <<>>]]

NoMarks == [call |-> -1, start |-> -1, headers |-> -1, magic |-> -1, payload |-> -1,
            end |-> -1]

NotReturned == [status |-> "none", error |-> "", images |-> <<>>]

\* read_all_images(reader)
Init ==
    /\ overflow_checks \in BOOLEAN
    /\ stream \in Streams
    /\ pos = 0
    /\ caller = "read_pixels"
    /\ P = "u8" /\ buf = <<>> /\ idx = 0 /\ base_value = Zero("u8")
    /\ decode_result = "none"
    /\ deltas = <<>>
    /\ line = <<>> /\ headers = NoHeaders /\ metadata = NoMetadata
    /\ steps = <<>> /\ marks = NoMarks
    /\ image_result = "none" /\ image = NoImageValue
    /\ images = <<>>                 \* Vec::new()
    /\ decoded = <<>>
    /\ returned = NotReturned
    /\ NoAnalysis
    /\ pc = "read_all_images"

\* a direct call of read_byte_offset(reader, buf), as the tests make it
InitDecode ==
    /\ overflow_checks \in BOOLEAN
    /\ stream \in Payloads
    /\ pos = 0
    /\ caller = "test"
    /\ P \in PixelTypes
    /\ \E count \in 0..MaxCount : buf = [k \in 1..count |-> Zero(P)]
    /\ idx = 0
    /\ base_value = Zero(P)          \* ByteOffsetReader::new
    /\ decode_result = "none"
    /\ deltas = <<>>
    /\ line = <<>> /\ headers = NoHeaders /\ metadata = NoMetadata
    /\ steps = <<>> /\ marks = NoMarks
    /\ image_result = "none" /\ image = NoImageValue
    /\ images = <<>>
    /\ decoded = <<>>
    /\ returned = NotReturned
    /\ NoAnalysis
    /\ pc = "read"

\* read_image returns Err(error) to try_read_next_image
Return(error) ==
    /\ image_result' = error
    /\ pc' = "try_read_next_image"

\* read_image goes on to its next call
Enter(step, mark, at) ==
    /\ pc' = ReadImageSteps[step]
    /\ steps' = steps \o SubSeq(ReadImageSteps, Len(steps) + 1, step)
    /\ marks' = [marks EXCEPT ![mark] = at]

\* read_all_images: the head of the while loop calls try_read_next_image, which
\* calls read_image
CallReadImage ==
    /\ pc = "read_all_images"
    /\ pc' = ReadImageSteps[1]
    /\ image_result' = "none"
    /\ image' = NoImageValue
    /\ steps' = SubSeq(ReadImageSteps, 1, 1)
    /\ marks' = [NoMarks EXCEPT !.call = pos]
    /\ line' = <<>> /\ headers' = NoHeaders /\ metadata' = NoMetadata
    /\ P' = "u8" /\ buf' = <<>> /\ idx' = 0 /\ base_value' = Zero("u8")
    /\ decode_result' = "none"
    /\ deltas' = <<>>
    /\ UNCHANGED <<analysisVars, inputVars, pos, outVars>>

\* progress_reader_to_cbf_start: one turn of the loop of progress_reader_to
ProgressToCbfStart ==
    /\ pc = "progress_reader_to_cbf_start"
    /\ LET r == progress_reader_to_cbf_start(stream, pos) IN
       /\ pos' = r.pos
       /\ CASE r.result = "Continue" -> UNCHANGED <<pc, image_result, steps, marks>>
            [] r.result = "Ok" -> Enter(2, "start", r.pos) /\ UNCHANGED image_result
            [] OTHER -> Return(r.result) /\ UNCHANGED <<steps, marks>>
    /\ UNCHANGED <<analysisVars, inputVars, decodeVars, headerVars, image, outVars>>

\* read_headers: the first read_line
ReadHeadersFirstLine ==
    /\ pc = "read_headers"
    /\ LET r == read_line(stream, pos, <<>>) IN
       /\ pos' = r.pos
       /\ line' = r.line
       /\ IF r.ok
          THEN pc' = "read_header" /\ UNCHANGED image_result
          ELSE Return("Reading(IO(InvalidData))")
    /\ headers' = NoHeaders
    /\ UNCHANGED <<analysisVars, inputVars, decodeVars, metadata, steps, marks, image, outVars>>

\* the condition that ends the loop of read_headers
HeadersEnd == line = <<>> \/ line = <<CR, LF>>

\* read_header, field(line) is Ok: the field is inserted, line is the rest
ReadHeaderField ==
    /\ pc = "read_header"
    /\ ~HeadersEnd
    /\ LET f == field(line) IN
       /\ f.st = "Ok"
       /\ headers' = insert(headers, f.out[1], f.out[2])
       /\ line' = SubSeq(line, f.i, Len(line))
    /\ UNCHANGED <<analysisVars, inputVars, pos, pc, decodeVars, metadata, steps, marks, image_result,
                   image, outVars>>

\* read_header, field(line) is Incomplete: one more line is appended to line
ReadHeaderMore ==
    /\ pc = "read_header"
    /\ ~HeadersEnd
    /\ field(line).st = "Incomplete"
    /\ LET r == read_line(stream, pos, line) IN
       /\ pos' = r.pos
       /\ line' = r.line
       /\ IF ~r.ok THEN Return("Reading(IO(InvalidData))")
          ELSE IF r.n = 0 THEN Return("Reading(IO(UnexpectedEof))")
          ELSE UNCHANGED <<pc, image_result>>
    /\ UNCHANGED <<analysisVars, inputVars, decodeVars, headers, metadata, steps, marks, image, outVars>>

\* read_header, field(line) is an error
ReadHeaderSyntaxError ==
    /\ pc = "read_header"
    /\ ~HeadersEnd
    /\ field(line).st = "Error"
    /\ Return("Reading(Parsing)")
    /\ UNCHANGED <<analysisVars, inputVars, pos, decodeVars, headerVars, steps, marks, image, outVars>>

\* read_headers returns the headers and read_metadata calls parse_metadata
ParseMetadata ==
    /\ pc = "read_header"
    /\ HeadersEnd
    /\ LET m == parse_metadata(headers) IN
       /\ metadata' = m.metadata
       /\ IF m.ok
          THEN Enter(4, "headers", pos) /\ UNCHANGED image_result
          ELSE /\ Return(m.error)
               /\ steps' = Append(steps, ReadImageSteps[3])
               /\ marks' = [marks EXCEPT !.headers = pos]
    /\ UNCHANGED <<analysisVars, inputVars, pos, decodeVars, line, headers, image, outVars>>

\* read_binary_header
ReadBinaryHeader ==
    /\ pc = "read_binary_header"
    /\ LET r == read_binary_header(stream, pos) IN
       /\ pos' = r.pos
       /\ IF r.result = "Ok"
          THEN Enter(5, "magic", r.pos) /\ UNCHANGED image_result
          ELSE Return(r.result) /\ UNCHANGED <<steps, marks>>
    /\ UNCHANGED <<analysisVars, inputVars, decodeVars, headerVars, image, outVars>>

\* read_pixels up to the call of read_byte_offset
ReadPixels ==
    /\ pc = "read_pixels"
    /\ LET check == read_pixels_check(metadata) IN
       IF check = "Ok"
       THEN /\ P' = PixelTypeOf(metadata.element_type)
            /\ buf' = [k \in 1..metadata.element_count |-> Zero(P')]
            /\ idx' = 0
            /\ base_value' = Zero(P')
            /\ pc' = "read"
            /\ UNCHANGED image_result
       ELSE /\ Return(check)
            /\ UNCHANGED <<P, buf, idx, base_value>>
    /\ UNCHANGED <<analysisVars, inputVars, pos, decode_result, deltas, headerVars, steps, marks, image,
                   outVars>>

\* one turn of the loop of ByteOffsetReader::read
ReadSample ==
    /\ pc = "read"
    /\ idx < Len(buf)
    /\ LET r == reader_read_value(P, stream, pos, base_value, overflow_checks) IN
       /\ pos' = r.pos
       /\ base_value' = r.base
       /\ IF r.ok
          THEN deltas' = Append(deltas, [start |-> pos, end |-> r.pos, delta |-> r.delta])
          ELSE deltas' = deltas
       /\ IF ~r.ok
          THEN /\ decode_result' = "IO"
               /\ IF caller = "test"
                  THEN pc' = "decoded" /\ UNCHANGED image_result
                  ELSE Return("IO(UnexpectedEof)")
               /\ UNCHANGED <<buf, idx>>
          ELSE IF r.panic
          THEN /\ decode_result' = "panic"
               /\ pc' = "panicked"
               /\ UNCHANGED <<buf, idx, image_result>>
          ELSE /\ buf' = [buf EXCEPT ![idx + 1] = r.base]
               /\ idx' = idx + 1
               /\ UNCHANGED <<decode_result, pc, image_result>>
    /\ UNCHANGED <<analysisVars, inputVars, P, headerVars, steps, marks, image, outVars>>

\* the loop of ByteOffsetReader::read has filled buf
ReadDone ==
    /\ pc = "read"
    /\ idx = Len(buf)
    /\ decode_result' = "Ok"
    /\ IF caller = "test"
       THEN pc' = "decoded" /\ UNCHANGED <<steps, marks>>
       ELSE Enter(6, "payload", pos)
    /\ UNCHANGED <<analysisVars, inputVars, pos, P, buf, idx, base_value, deltas, headerVars,
                   image_result, image, outVars>>

\* progress_reader_to_cbf_end: one turn of the loop of progress_reader_to
ProgressToCbfEnd ==
    /\ pc = "progress_reader_to_cbf_end"
    /\ LET r == progress_reader_to_cbf_end(stream, pos) IN
       /\ pos' = r.pos
       /\ CASE r.result = "Continue" -> UNCHANGED <<pc, image_result, steps, marks>>
            [] r.result = "Ok" -> Enter(7, "end", r.pos) /\ UNCHANGED image_result
            [] OTHER -> Return(r.result) /\ UNCHANGED <<steps, marks>>
    /\ UNCHANGED <<analysisVars, inputVars, decodeVars, headerVars, image, outVars>>

\* the last expression of read_image: the image, if it has its dimensions
BuildImage ==
    /\ pc = "Image"
    /\ IF metadata.width.some /\ metadata.height.some
       THEN /\ image' = [width |-> metadata.width.value,
                         height |-> metadata.height.value,
                         pixels |-> [type |-> P, data |-> buf]]
            /\ Return("Ok")
            /\ decoded' = Append(decoded, [image |-> image', start |-> marks.call, end |-> pos])
       ELSE /\ Return("MissingDimension")
            /\ UNCHANGED <<image, decoded>>
    /\ UNCHANGED <<analysisVars, inputVars, pos, decodeVars, headerVars, steps, marks, images, returned>>

\* a push at the front of the Vec
push_front(vec, value) == <<value>> \o vec

\* Vec::push of read_all_images
push(vec, value) == Append(vec, value)

\* the match of try_read_next_image and the body of the loop of read_all_images
TryReadNextImage ==
    /\ pc = "try_read_next_image"
    /\ CASE image_result = "Ok" ->
                /\ images' = push(images, image)
                /\ pc' = "read_all_images"
                /\ UNCHANGED returned
         [] image_result = "NoImage" ->
                /\ returned' = [status |-> "Ok", error |-> "", images |-> images]
                /\ pc' = "returned"
                /\ UNCHANGED images
         [] OTHER ->
                /\ returned' = [status |-> "Err", error |-> image_result, images |-> <<>>]
                /\ pc' = "returned"
                /\ UNCHANGED images
    /\ UNCHANGED <<analysisVars, inputVars, pos, decodeVars, headerVars, steps, marks, image_result, image,
                   decoded>>

Next ==
    \/ CallReadImage
    \/ ProgressToCbfStart
    \/ ReadHeadersFirstLine
    \/ ReadHeaderField
    \/ ReadHeaderMore
    \/ ReadHeaderSyntaxError
    \/ ParseMetadata
    \/ ReadBinaryHeader
    \/ ReadPixels
    \/ ReadSample
    \/ ReadDone
    \/ ProgressToCbfEnd
    \/ BuildImage
    \/ TryReadNextImage

Spec == Init /\ [][Next]_vars

NextDecode == ReadSample \/ ReadDone

SpecDecode == InitDecode /\ [][NextDecode]_vars

---------------------------------------------------------------------------
(* The escape chain as the byte stream shows it, read off the stream alone. *)

\* the width in bytes (1, 2, 4 or 8) of the value the chain at offset p stops at
ChainWidth(s, p) ==
    IF s[p + 1] # 128 THEN 1
    ELSE IF <<s[p + 2], s[p + 3]>> # <<0, 128>> THEN 2
    ELSE IF <<s[p + 4], s[p + 5], s[p + 6], s[p + 7]>> # <<0, 0, 0, 128>> THEN 4
    ELSE 8

\* the bytes of the chain at offset p: 1, 3, 7 or 15
ChainLength(s, p) == 2 * ChainWidth(s, p) - 1

\* the bytes of the value the chain at offset p stops at
ChainValue(s, p) ==
    SubSeq(s, p + ChainLength(s, p) - ChainWidth(s, p) + 1, p + ChainLength(s, p))

\* a value widened to 64 bits by the signedness of the type T
Widen(T, bytes) == IF IsSigned(T) THEN SignExtend(bytes, 8) ELSE ZeroExtend(bytes, 8)

RECURSIVE ColumnSum(_, _, _)
\* the sum of the k-th bytes of the first n deltas
ColumnSum(ds, n, k) == IF n = 0 THEN 0 ELSE ds[n].delta[k] + ColumnSum(ds, n - 1, k)

RECURSIVE ColumnCarry(_, _, _)
\* the carry into byte k (k >= 1) of the sum of the first n deltas
ColumnCarry(ds, n, k) ==
    IF k = 1 THEN 0
    ELSE (ColumnSum(ds, n, k - 1) + ColumnCarry(ds, n, k - 1)) \div 256

\* the sum of the first n deltas modulo 2^W, added column by column
SumOfDeltas(T, ds, n) ==
    [k \in 1..SizeOf(T) |-> (ColumnSum(ds, n, k) + ColumnCarry(ds, n, k)) % 256]

RECURSIVE EndOfSamples(_, _, _)
\* the offset after n whole chains that start at offset p
EndOfSamples(s, p, n) ==
    IF n = 0 THEN p ELSE EndOfSamples(s, p + ChainLength(s, p), n - 1)

---------------------------------------------------------------------------
(* C1, as stated: the delta of every sample is the value its escape chain  *)
(* stops at, sign-extended for a signed target type and zero-extended for  *)
(* an unsigned one: as numbers, the delta and the value read are equal.    *)
C1_DeltaIsValueRead ==
    \A i \in 1..Len(deltas) :
        Widen(P, deltas[i].delta) = Widen(P, ChainValue(stream, deltas[i].start))

(* C1, amended: the delta of every sample is the low W bits of the value   *)
(* its escape chain stops at, the value being sign-extended (signed target)*)
(* or zero-extended (unsigned target) when it is narrower than W bits; the *)
(* chain stops at the first of the 1, 2, 4 byte values that is not 80,     *)
(* 8000, 80000000, else at the 8 byte value.                               *)
C1_DeltaIsLowBitsOfValue ==
    \A i \in 1..Len(deltas) :
        /\ deltas[i].end = deltas[i].start + ChainLength(stream, deltas[i].start)
        /\ deltas[i].delta =
               FirstBytes(Widen(P, ChainValue(stream, deltas[i].start)), SizeOf(P))

\* C1's case: the i32 examples of the claim, 80 20 04 and 80 00 80 20 04 20 04
C1_Witness ==
    /\ P = "i32"
    /\ stream = <<128, 32, 4, 128, 0, 128, 32, 4, 32, 4>>
    /\ Len(deltas) = 2
    /\ deltas[1].delta = <<32, 4, 0, 0>>
    /\ deltas[2].delta = <<32, 4, 32, 4>>

(* C2: sample i written by read_byte_offset is the sum of the deltas of    *)
(* the samples 0..i (modulo 2^W): the base starts at 0 and is carried from *)
(* sample to sample.                                                       *)
C2_SampleIsSumOfDeltas ==
    caller = "test" =>
        /\ idx <= Len(deltas)
        /\ \A i \in 1..idx : buf[i] = SumOfDeltas(P, deltas, i)
        /\ \A i \in (idx + 1)..Len(buf) : buf[i] = Zero(P)

\* C2's case: the stream 42 24 gives 0x42 then 0x66
C2_Witness ==
    /\ P = "i32" /\ stream = <<66, 36>> /\ idx = 2
    /\ buf = <<(<<66, 0, 0, 0>>), (<<102, 0, 0, 0>>)>>

(* C3: an addition of a delta to the base that leaves the range of the     *)
(* pixel type wraps modulo 2^W, the wrapped value is emitted and the       *)
(* decode goes on: the overflow never aborts the decode.                   *)
C3_OverflowWrapsAndNeverAborts ==
    /\ decode_result # "panic"
    /\ \A i \in 1..Len(deltas) : i <= idx /\ buf[i] = SumOfDeltas(P, deltas, i)

(* C4: after read_byte_offset succeeds, the bytes consumed are the sum     *)
(* over the samples of the 1, 3, 7 or 15 bytes of their chains: the reader *)
(* stands right after the last sample.                                     *)
C4_ConsumedExactly ==
    (caller = "test" /\ decode_result = "Ok") =>
        pos = EndOfSamples(stream, 0, Len(buf))

\* C4's case: one sample of 7 bytes decoded, and a byte left unread behind it
C4_Witness ==
    /\ caller = "test" /\ decode_result = "Ok"
    /\ Len(buf) = 1 /\ pos = 7 /\ Len(stream) = 8

---------------------------------------------------------------------------
(* The lines of the stream, as the bytes show them. *)

\* the offset after the first line equal to needle, of the lines that the
\* stream s is cut into from the offset p on, or -1 when there is none; the
\* needle ends with its only line feed, so a line is the needle when it
\* starts with it
FirstLine(s, p, needle) ==
    LET starts == {a \in p..(Len(s) - Len(needle)) : a = p \/ s[a] = LF}
        hits == {a \in starts : SubSeq(s, a + 1, a + Len(needle)) = needle} IN
    IF hits = {} THEN -1
    ELSE (CHOOSE a \in hits : \A h \in hits : a <= h) + Len(needle)

\* the bytes that follow the first byte c of a character of UTF-8
Following(c) ==
    IF c \in 194..223 THEN 1
    ELSE IF c \in 224..239 THEN 2
    ELSE IF c \in 240..244 THEN 3
    ELSE 0

\* the second byte d of a character of UTF-8 that starts with the byte c
SecondByte(c, d) ==
    CASE c = 224 -> d \in 160..191
      [] c = 237 -> d \in 128..159
      [] c = 240 -> d \in 144..191
      [] c = 244 -> d \in 128..143
      [] OTHER -> d \in 128..191

\* the bytes of the stream s after the offset p are UTF-8: every byte is
\* ASCII, or starts a whole character, or follows the start of one
TextFrom(s, p) ==
    \A k \in (p + 1)..Len(s) :
        LET c == s[k] IN
        \/ c < 128
        \/ /\ Following(c) > 0
           /\ k + Following(c) <= Len(s)
           /\ SecondByte(c, s[k + 1])
           /\ \A j \in 2..Following(c) : s[k + j] \in 128..191
        \/ /\ c \in 128..191
           /\ \E j \in 1..3 :
                  /\ k - j > p
                  /\ Following(s[k - j]) >= j
                  /\ \A i \in 1..(j - 1) : s[k - i] \in 128..191

\* the stream s ends within the escape chain that starts at the offset p
ChainCut(s, p) ==
    IF Len(s) < p + 1 THEN TRUE
    ELSE IF s[p + 1] # 128 THEN FALSE
    ELSE IF Len(s) < p + 3 THEN TRUE
    ELSE IF <<s[p + 2], s[p + 3]>> # <<0, 128>> THEN FALSE
    ELSE IF Len(s) < p + 7 THEN TRUE
    ELSE IF <<s[p + 4], s[p + 5], s[p + 6], s[p + 7]>> # <<0, 0, 0, 128>> THEN FALSE
    ELSE Len(s) < p + 15

RECURSIVE EndsWithin(_, _, _)
\* the stream s ends within the n escape chains that start at the offset p
EndsWithin(s, p, n) ==
    /\ n > 0
    /\ \/ ChainCut(s, p)
       \/ EndsWithin(s, p + ChainLength(s, p), n - 1)

\* the sentinel lines and the magic bytes, as the claims write them
StartLine == <<45, 45, 67, 73, 70, 45, 66, 73, 78, 65, 82, 89, 45, 70, 79, 82, 77, 65, 84, 45, 83, 69, 67, 84, 73, 79, 78, 45, 45, 13, 10>>
EndLine == <<45, 45, 67, 73, 70, 45, 66, 73, 78, 65, 82, 89, 45, 70, 79, 82, 77, 65, 84, 45, 83, 69, 67, 84, 73, 79, 78, 45, 45, 45, 45, 13, 10>>
Magic == <<12, 26, 4, 213>>

\* the steps of read_image, in the order C6 gives them
StepsInOrder ==
    <<"progress_reader_to_cbf_start",   \* find the start sentinel line
      "read_headers",                   \* parse the header block
      "parse_metadata",                 \* build the metadata
      "read_binary_header",             \* check the 4 magic bytes
      "read_pixels",                    \* decode the payload
      "progress_reader_to_cbf_end",     \* search for the end sentinel
      "Image">>

\* the steps that can return the error
StepsOf(error) ==
    CASE error = "NoImage" -> {1}
      [] error = "IO(InvalidData)" -> {1, 6}
      [] error \in {"Reading(IO(InvalidData))", "Reading(IO(UnexpectedEof))",
                    "Reading(Parsing)"} -> {2}
      [] error = "UnrecognisedBinaryHeader" -> {4}
      [] error = "IO(UnexpectedEof)" -> {4, 5}
      [] error \in {"UnsupportedByteOrder", "UnsupportedContentType",
                    "UnsupportedEncoding", "UnsupportedCompression",
                    "UnsupportedPixelFormat"} -> {5}
      [] error = "MissingDimension" -> {7}
      [] OTHER -> {3}

\* the decode of the payload is over: it was called and the control has left it
DecodeOver == marks.magic >= 0 /\ Len(buf) > 0 /\ pc # "read"

(* C5, as stated: when the stream ends before the bytes that a step of a   *)
(* sample's escape chain needs, read_byte_offset returns an I/O error and  *)
(* read_image returns that error and no image.                             *)
C5_ShortPayloadIsIOError ==
    (DecodeOver /\ EndsWithin(stream, marks.magic, Len(buf))) =>
        /\ decode_result = "IO"
        /\ image_result = "IO(UnexpectedEof)"
        /\ image = NoImageValue

(* C6: read_image does its steps in the order start sentinel, header       *)
(* block, metadata, magic bytes, payload, end sentinel; a step that fails  *)
(* returns its error and is the last step that ran; magic bytes other than *)
(* 0C 1A 04 D5 give UnrecognisedBinaryHeader and no sample is decoded.     *)
C6_StepsInOrderErrorsAtOnce ==
    /\ steps = SubSeq(StepsInOrder, 1, Len(steps))
    /\ image_result \notin {"none", "Ok"} =>
           /\ pc \in {"try_read_next_image", "returned"}
           /\ Len(steps) \in StepsOf(image_result)
    /\ (/\ Len(steps) >= 4 /\ pc # "read_binary_header"
        /\ Len(stream) >= marks.headers + 4
        /\ SubSeq(stream, marks.headers + 1, marks.headers + 4) # Magic) =>
           /\ image_result = "UnrecognisedBinaryHeader"
           /\ Len(steps) = 4
           /\ pos = marks.headers + 4
           /\ deltas = <<>> /\ buf = <<>>

\* C6's case: after one whole image, a section with wrong magic bytes is
\* refused at its fourth step
C6_Witness ==
    /\ pc = "returned"
    /\ image_result = "UnrecognisedBinaryHeader"
    /\ Len(decoded) = 1
    /\ Len(steps) = 4

(* C7, as stated: read_image returns NoImage if and only if the stream     *)
(* ends before a line equal to the start sentinel line has been read.      *)
C7_NoImageIffNoStartLine ==
    image_result # "none" =>
        (image_result = "NoImage" <=> FirstLine(stream, marks.call, StartLine) = -1)

(* C7, amended: read_image returns NoImage if and only if the rest of the  *)
(* stream has no line equal to the start sentinel line and is valid UTF-8  *)
(* (a line that is not is an I/O error); the lines before the start        *)
(* sentinel line are discarded and a failure after it is never NoImage.    *)
C7_NoImageIffTextWithoutStartLine ==
    /\ image_result # "none" =>
           (image_result = "NoImage" <=>
                /\ FirstLine(stream, marks.call, StartLine) = -1
                /\ TextFrom(stream, marks.call))
    /\ marks.start >= 0 =>
           /\ marks.start = FirstLine(stream, marks.call, StartLine)
           /\ image_result # "NoImage"
    /\ pc = "read_headers" => pos = marks.start /\ line = <<>> /\ headers = NoHeaders

\* C7's case: after one image, lines without a start sentinel line are read
\* to the end of the stream
C7_Witness ==
    /\ image_result = "NoImage"
    /\ Len(decoded) = 1
    /\ marks.call < Len(stream)
    /\ pos = Len(stream)

(* C8: read_all_images calls read_image again where the last image ended;  *)
(* on NoImage it returns Ok with the images decoded so far in the order of *)
(* the stream, on another error it returns that error and no image.        *)
C8_ReadAllImages ==
    /\ pc = "returned" =>
           IF image_result = "NoImage"
           THEN returned = [status |-> "Ok", error |-> "",
                            images |-> [k \in 1..Len(decoded) |-> decoded[k].image]]
           ELSE /\ image_result \notin {"none", "Ok"}
                /\ returned = [status |-> "Err", error |-> image_result, images |-> <<>>]
    /\ \A k \in 1..(Len(decoded) - 1) : decoded[k].end <= decoded[k + 1].start
    /\ (Len(decoded) > 0 /\ marks.call >= 0 /\ image_result # "Ok") =>
           marks.call = decoded[Len(decoded)].end

\* C8's case: two images, not the same, are returned
C8_Witness ==
    /\ pc = "returned"
    /\ returned.status = "Ok"
    /\ Len(returned.images) = 2
    /\ returned.images[1] # returned.images[2]

(* C9: after read_image succeeds on a section that has its end sentinel    *)
(* line, the stream is positioned right after that line.                   *)
C9_PositionedAfterEndSentinel ==
    (image_result = "Ok" /\ FirstLine(stream, marks.payload, EndLine) # -1) =>
        pos = FirstLine(stream, marks.payload, EndLine)

\* C9's case: the line ";" that follows the end sentinel line is left unread
C9_Witness ==
    /\ image_result = "Ok"
    /\ FirstLine(stream, marks.payload, EndLine) # -1
    /\ SubSeq(stream, pos + 1, Len(stream)) = <<59, 13, 10>>

(* C10, as stated: in a stream that read_image accepts, the header block   *)
(* ends before the start sentinel line and the magic bytes 0C 1A 04 D5     *)
(* are the bytes right after the start sentinel line, the payload next.    *)
C10_HeaderBeforeStartSentinel ==
    image_result = "Ok" =>
        /\ marks.headers <= marks.start - Len(StartLine)
        /\ Len(stream) >= marks.start + 4
        /\ SubSeq(stream, marks.start + 1, marks.start + 4) = Magic
        /\ marks.magic = marks.start + 4

(* C10, amended: in a stream that read_image accepts, the start sentinel   *)
(* line comes first, the header block follows it and ends with a blank     *)
(* line, the magic bytes 0C 1A 04 D5 are the 4 bytes right after the blank *)
(* line, and the payload follows them.                                     *)
C10_HeaderAfterStartSentinel ==
    image_result = "Ok" =>
        /\ marks.start >= marks.call + Len(StartLine)
        /\ SubSeq(stream, marks.start - Len(StartLine) + 1, marks.start) = StartLine
        /\ marks.headers >= marks.start + 4
        /\ SubSeq(stream, marks.headers - 3, marks.headers) = <<CR, LF, CR, LF>>
        /\ SubSeq(stream, marks.headers + 1, marks.headers + 4) = Magic
        /\ marks.magic = marks.headers + 4
        /\ Len(deltas) = Len(buf)
        /\ Len(buf) > 0 => deltas[1].start = marks.magic
        /\ marks.payload = EndOfSamples(stream, marks.magic, Len(buf))

\* C10's case: a stream that is one whole section of two i32 samples
C10_Witness ==
    /\ image_result = "Ok"
    /\ marks.start = Len(StartLine)
    /\ marks.headers > marks.start
    /\ P = "i32" /\ Len(deltas) = 2
    /\ pos = Len(stream)
---------------------------------------------------------------------------
(* Header blocks: the fields of a block, each in the ways it can be        *)
(* written.  The first way of every field is the one of GoodHeader.        *)

\* the most fields of a block that are not written the first way
MaxChanged == 2

ContentTypeFields ==
    << ContentTypeField,
       PackedContentTypeField,
       \* conversions="X-CBF_PACKED";uncorrelated_sections
       <<99, 111, 110, 116, 101, 110, 116, 45, 116, 121, 112, 101, 58, 32, 97, 112, 112, 108, 105, 99, 97, 116, 105, 111, 110, 47, 111, 99, 116, 101, 116, 45, 115, 116, 114, 101, 97, 109, 59, 99, 111, 110, 118, 101, 114, 115, 105, 111, 110, 115, 61, 34, 88, 45, 67, 66, 70, 95, 80, 65, 67, 75, 69, 68, 34, 59, 117, 110, 99, 111, 114, 114, 101, 108, 97, 116, 101, 100, 95, 115, 101, 99, 116, 105, 111, 110, 115, 13, 10>>,
       \* flat;conversions="X-CBF_PACKED"
       <<99, 111, 110, 116, 101, 110, 116, 45, 116, 121, 112, 101, 58, 32, 97, 112, 112, 108, 105, 99, 97, 116, 105, 111, 110, 47, 111, 99, 116, 101, 116, 45, 115, 116, 114, 101, 97, 109, 59, 102, 108, 97, 116, 59, 99, 111, 110, 118, 101, 114, 115, 105, 111, 110, 115, 61, 34, 88, 45, 67, 66, 70, 95, 80, 65, 67, 75, 69, 68, 34, 13, 10>>,
       \* flat;conversions="x-CBF_BYTE_OFFSET"
       <<99, 111, 110, 116, 101, 110, 116, 45, 116, 121, 112, 101, 58, 32, 97, 112, 112, 108, 105, 99, 97, 116, 105, 111, 110, 47, 111, 99, 116, 101, 116, 45, 115, 116, 114, 101, 97, 109, 59, 102, 108, 97, 116, 59, 99, 111, 110, 118, 101, 114, 115, 105, 111, 110, 115, 61, 34, 120, 45, 67, 66, 70, 95, 66, 89, 84, 69, 95, 79, 70, 70, 83, 69, 84, 34, 13, 10>>,
       \* conversions="x-CBF_CANONICAL";uncorrelated_sections
       <<99, 111, 110, 116, 101, 110, 116, 45, 116, 121, 112, 101, 58, 32, 97, 112, 112, 108, 105, 99, 97, 116, 105, 111, 110, 47, 111, 99, 116, 101, 116, 45, 115, 116, 114, 101, 97, 109, 59, 99, 111, 110, 118, 101, 114, 115, 105, 111, 110, 115, 61, 34, 120, 45, 67, 66, 70, 95, 67, 65, 78, 79, 78, 73, 67, 65, 76, 34, 59, 117, 110, 99, 111, 114, 114, 101, 108, 97, 116, 101, 100, 95, 115, 101, 99, 116, 105, 111, 110, 115, 13, 10>>,
       \* conversions="x-CBF_BACKGROUND_OFFSET_DELTA"
       <<99, 111, 110, 116, 101, 110, 116, 45, 116, 121, 112, 101, 58, 32, 97, 112, 112, 108, 105, 99, 97, 116, 105, 111, 110, 47, 111, 99, 116, 101, 116, 45, 115, 116, 114, 101, 97, 109, 59, 99, 111, 110, 118, 101, 114, 115, 105, 111, 110, 115, 61, 34, 120, 45, 67, 66, 70, 95, 66, 65, 67, 75, 71, 82, 79, 85, 78, 68, 95, 79, 70, 70, 83, 69, 84, 95, 68, 69, 76, 84, 65, 34, 13, 10>>,
       \* no parameters
       <<99, 111, 110, 116, 101, 110, 116, 45, 116, 121, 112, 101, 58, 32, 97, 112, 112, 108, 105, 99, 97, 116, 105, 111, 110, 47, 111, 99, 116, 101, 116, 45, 115, 116, 114, 101, 97, 109, 13, 10>>,
       \* flat and no conversions
       <<99, 111, 110, 116, 101, 110, 116, 45, 116, 121, 112, 101, 58, 32, 97, 112, 112, 108, 105, 99, 97, 116, 105, 111, 110, 47, 111, 99, 116, 101, 116, 45, 115, 116, 114, 101, 97, 109, 59, 102, 108, 97, 116, 13, 10>>,
       \* conversions="x-CBF_GZIP"
       <<99, 111, 110, 116, 101, 110, 116, 45, 116, 121, 112, 101, 58, 32, 97, 112, 112, 108, 105, 99, 97, 116, 105, 111, 110, 47, 111, 99, 116, 101, 116, 45, 115, 116, 114, 101, 97, 109, 59, 99, 111, 110, 118, 101, 114, 115, 105, 111, 110, 115, 61, 34, 120, 45, 67, 66, 70, 95, 71, 90, 73, 80, 34, 13, 10>>,
       \* text/plain
       <<99, 111, 110, 116, 101, 110, 116, 45, 116, 121, 112, 101, 58, 32, 116, 101, 120, 116, 47, 112, 108, 97, 105, 110, 59, 99, 111, 110, 118, 101, 114, 115, 105, 111, 110, 115, 61, 34, 120, 45, 67, 66, 70, 95, 66, 89, 84, 69, 95, 79, 70, 70, 83, 69, 84, 34, 13, 10>>,
       \* uncorrelated_sections;conversions="X-CBF_PACKED";FLAT
       <<99, 111, 110, 116, 101, 110, 116, 45, 116, 121, 112, 101, 58, 32, 97, 112, 112, 108, 105, 99, 97, 116, 105, 111, 110, 47, 111, 99, 116, 101, 116, 45, 115, 116, 114, 101, 97, 109, 59, 117, 110, 99, 111, 114, 114, 101, 108, 97, 116, 101, 100, 95, 115, 101, 99, 116, 105, 111, 110, 115, 59, 99, 111, 110, 118, 101, 114, 115, 105, 111, 110, 115, 61, 34, 88, 45, 67, 66, 70, 95, 80, 65, 67, 75, 69, 68, 34, 59, 70, 76, 65, 84, 13, 10>>,
       \* conversions="X-CBF_PACKED";flat;conversions="x-CBF_BYTE_OFFSET"
       <<99, 111, 110, 116, 101, 110, 116, 45, 116, 121, 112, 101, 58, 32, 97, 112, 112, 108, 105, 99, 97, 116, 105, 111, 110, 47, 111, 99, 116, 101, 116, 45, 115, 116, 114, 101, 97, 109, 59, 99, 111, 110, 118, 101, 114, 115, 105, 111, 110, 115, 61, 34, 88, 45, 67, 66, 70, 95, 80, 65, 67, 75, 69, 68, 34, 59, 102, 108, 97, 116, 59, 99, 111, 110, 118, 101, 114, 115, 105, 111, 110, 115, 61, 34, 120, 45, 67, 66, 70, 95, 66, 89, 84, 69, 95, 79, 70, 70, 83, 69, 84, 34, 13, 10>>,
       \* q=1; conversions = x-cbf_packed
       <<99, 111, 110, 116, 101, 110, 116, 45, 116, 121, 112, 101, 58, 32, 97, 112, 112, 108, 105, 99, 97, 116, 105, 111, 110, 47, 111, 99, 116, 101, 116, 45, 115, 116, 114, 101, 97, 109, 59, 113, 61, 49, 59, 32, 99, 111, 110, 118, 101, 114, 115, 105, 111, 110, 115, 61, 32, 120, 45, 99, 98, 102, 95, 112, 97, 99, 107, 101, 100, 32, 13, 10>>,
       \* no subtype
       <<99, 111, 110, 116, 101, 110, 116, 45, 116, 121, 112, 101, 58, 32, 97, 112, 112, 108, 105, 99, 97, 116, 105, 111, 110, 13, 10>>,
       \* no field
       <<>> >>

EncodingFields ==
    << EncodingField,
       \* BASE64
       <<99, 111, 110, 116, 101, 110, 116, 45, 116, 114, 97, 110, 115, 102, 101, 114, 45, 101, 110, 99, 111, 100, 105, 110, 103, 58, 32, 66, 65, 83, 69, 54, 52, 13, 10>>,
       \* BINARY; charset="UTF-8"
       <<99, 111, 110, 116, 101, 110, 116, 45, 116, 114, 97, 110, 115, 102, 101, 114, 45, 101, 110, 99, 111, 100, 105, 110, 103, 58, 32, 66, 73, 78, 65, 82, 89, 59, 32, 99, 104, 97, 114, 115, 101, 116, 61, 34, 85, 84, 70, 45, 56, 34, 13, 10>>,
       \* BINARY; charset="latin-1"
       <<99, 111, 110, 116, 101, 110, 116, 45, 116, 114, 97, 110, 115, 102, 101, 114, 45, 101, 110, 99, 111, 100, 105, 110, 103, 58, 32, 66, 73, 78, 65, 82, 89, 59, 32, 99, 104, 97, 114, 115, 101, 116, 61, 34, 108, 97, 116, 105, 110, 45, 49, 34, 13, 10>>,
       \* gzip
       <<99, 111, 110, 116, 101, 110, 116, 45, 116, 114, 97, 110, 115, 102, 101, 114, 45, 101, 110, 99, 111, 100, 105, 110, 103, 58, 32, 103, 122, 105, 112, 13, 10>>,
       <<>> >>

SizeFields ==
    << SizeField,
       \* big
       <<120, 45, 98, 105, 110, 97, 114, 121, 45, 115, 105, 122, 101, 58, 32, 98, 105, 103, 13, 10>>,
       <<>> >>

ElementTypeFields ==
    << I32Field,
       U8Field,
       <<120, 45, 98, 105, 110, 97, 114, 121, 45, 101, 108, 101, 109, 101, 110, 116, 45, 116, 121, 112, 101, 58, 32, 34, 115, 105, 103, 110, 101, 100, 32, 56, 45, 98, 105, 116, 32, 105, 110, 116, 101, 103, 101, 114, 34, 13, 10>>,
       <<120, 45, 98, 105, 110, 97, 114, 121, 45, 101, 108, 101, 109, 101, 110, 116, 45, 116, 121, 112, 101, 58, 32, 34, 117, 110, 115, 105, 103, 110, 101, 100, 32, 49, 54, 45, 98, 105, 116, 32, 105, 110, 116, 101, 103, 101, 114, 34, 13, 10>>,
       <<120, 45, 98, 105, 110, 97, 114, 121, 45, 101, 108, 101, 109, 101, 110, 116, 45, 116, 121, 112, 101, 58, 32, 34, 115, 105, 103, 110, 101, 100, 32, 49, 54, 45, 98, 105, 116, 32, 105, 110, 116, 101, 103, 101, 114, 34, 13, 10>>,
       <<120, 45, 98, 105, 110, 97, 114, 121, 45, 101, 108, 101, 109, 101, 110, 116, 45, 116, 121, 112, 101, 58, 32, 34, 117, 110, 115, 105, 103, 110, 101, 100, 32, 51, 50, 45, 98, 105, 116, 32, 105, 110, 116, 101, 103, 101, 114, 34, 13, 10>>,
       <<120, 45, 98, 105, 110, 97, 114, 121, 45, 101, 108, 101, 109, 101, 110, 116, 45, 116, 121, 112, 101, 58, 32, 34, 117, 110, 115, 105, 103, 110, 101, 100, 32, 49, 45, 98, 105, 116, 32, 105, 110, 116, 101, 103, 101, 114, 34, 13, 10>>,
       <<120, 45, 98, 105, 110, 97, 114, 121, 45, 101, 108, 101, 109, 101, 110, 116, 45, 116, 121, 112, 101, 58, 32, 34, 115, 105, 103, 110, 101, 100, 32, 51, 50, 45, 98, 105, 116, 32, 114, 101, 97, 108, 32, 73, 69, 69, 69, 34, 13, 10>>,
       <<120, 45, 98, 105, 110, 97, 114, 121, 45, 101, 108, 101, 109, 101, 110, 116, 45, 116, 121, 112, 101, 58, 32, 34, 115, 105, 103, 110, 101, 100, 32, 54, 52, 45, 98, 105, 116, 32, 114, 101, 97, 108, 32, 73, 69, 69, 69, 34, 13, 10>>,
       <<120, 45, 98, 105, 110, 97, 114, 121, 45, 101, 108, 101, 109, 101, 110, 116, 45, 116, 121, 112, 101, 58, 32, 34, 115, 105, 103, 110, 101, 100, 32, 51, 50, 45, 98, 105, 116, 32, 99, 111, 109, 112, 108, 101, 120, 32, 73, 69, 69, 69, 34, 13, 10>>,
       \* "signed 24-bit integer"
       <<120, 45, 98, 105, 110, 97, 114, 121, 45, 101, 108, 101, 109, 101, 110, 116, 45, 116, 121, 112, 101, 58, 32, 34, 115, 105, 103, 110, 101, 100, 32, 50, 52, 45, 98, 105, 116, 32, 105, 110, 116, 101, 103, 101, 114, 34, 13, 10>>,
       <<>> >>

ByteOrderFields ==
    << ByteOrderField,
       BigEndianField,
       \* MIDDLE_ENDIAN
       <<120, 45, 98, 105, 110, 97, 114, 121, 45, 101, 108, 101, 109, 101, 110, 116, 45, 98, 121, 116, 101, 45, 111, 114, 100, 101, 114, 58, 32, 77, 73, 68, 68, 76, 69, 95, 69, 78, 68, 73, 65, 78, 13, 10>>,
       <<>> >>

CountFields ==
    << CountField,
       \* two
       <<120, 45, 98, 105, 110, 97, 114, 121, 45, 110, 117, 109, 98, 101, 114, 45, 111, 102, 45, 101, 108, 101, 109, 101, 110, 116, 115, 58, 32, 116, 119, 111, 13, 10>>,
       <<>> >>

DimensionFields ==
    << WidthField \o HeightField,
       \* the width is "wide"
       <<120, 45, 98, 105, 110, 97, 114, 121, 45, 115, 105, 122, 101, 45, 102, 97, 115, 116, 101, 115, 116, 45, 100, 105, 109, 101, 110, 115, 105, 111, 110, 58, 32, 119, 105, 100, 101, 13, 10>> \o HeightField,
       \* a padding of "none"
       <<120, 45, 98, 105, 110, 97, 114, 121, 45, 115, 105, 122, 101, 45, 112, 97, 100, 100, 105, 110, 103, 58, 32, 110, 111, 110, 101, 13, 10>> \o WidthField \o HeightField,
       <<>> >>

\* the fields in the order Header writes them
FieldWays ==
    << EncodingFields, SizeFields, ElementTypeFields, ByteOrderFields, CountFields,
       DimensionFields, ContentTypeFields >>

RECURSIVE FieldLines(_, _)
\* the fields from the k-th on, at most n of them not written the first way
FieldLines(k, n) ==
    IF k > Len(FieldWays) THEN {<<>>}
    ELSE {FieldWays[k][1] \o rest : rest \in FieldLines(k + 1, n)}
         \cup (IF n = 0 THEN {}
               ELSE {FieldWays[k][w] \o rest :
                        w \in 2..Len(FieldWays[k]), rest \in FieldLines(k + 1, n - 1)})

HeaderBlocks == {fields \o BlankLine : fields \in FieldLines(1, MaxChanged)}

\* a section of two samples, 42 24, behind the header block
Section(block) ==
    StartSentinel \o block \o BinaryHeader \o <<66, 36>> \o BlankLine \o EndSentinel

\* the header block of the reference file: header_text of test_real_headers and
\* of test_real_metadata
RealHeader ==
    \* Content-Transfer-Encoding: BINARY
    <<67, 111, 110, 116, 101, 110, 116, 45, 84, 114, 97, 110, 115, 102, 101, 114, 45, 69, 110, 99, 111, 100, 105, 110, 103, 58, 32, 66, 73, 78, 65, 82, 89, 13, 10>>
    \* X-Binary-ID: 1
    \o <<88, 45, 66, 105, 110, 97, 114, 121, 45, 73, 68, 58, 32, 49, 13, 10>>
    \* X-Binary-Element-Type: "signed 32-bit integer"
    \o <<88, 45, 66, 105, 110, 97, 114, 121, 45, 69, 108, 101, 109, 101, 110, 116, 45, 84, 121, 112, 101, 58, 32, 34, 115, 105, 103, 110, 101, 100, 32, 51, 50, 45, 98, 105, 116, 32, 105, 110, 116, 101, 103, 101, 114, 34, 13, 10>>
    \* X-Binary-Element-Byte-Order: LITTLE_ENDIAN
    \o <<88, 45, 66, 105, 110, 97, 114, 121, 45, 69, 108, 101, 109, 101, 110, 116, 45, 66, 121, 116, 101, 45, 79, 114, 100, 101, 114, 58, 32, 76, 73, 84, 84, 76, 69, 95, 69, 78, 68, 73, 65, 78, 13, 10>>
    \* X-Binary-Number-of-Elements: 8294400
    \o <<88, 45, 66, 105, 110, 97, 114, 121, 45, 78, 117, 109, 98, 101, 114, 45, 111, 102, 45, 69, 108, 101, 109, 101, 110, 116, 115, 58, 32, 56, 50, 57, 52, 52, 48, 48, 13, 10>>
    \* X-Binary-Size-Fastest-Dimension: 2880
    \o <<88, 45, 66, 105, 110, 97, 114, 121, 45, 83, 105, 122, 101, 45, 70, 97, 115, 116, 101, 115, 116, 45, 68, 105, 109, 101, 110, 115, 105, 111, 110, 58, 32, 50, 56, 56, 48, 13, 10>>
    \* X-Binary-Size-Second-Dimension: 2880
    \o <<88, 45, 66, 105, 110, 97, 114, 121, 45, 83, 105, 122, 101, 45, 83, 101, 99, 111, 110, 100, 45, 68, 105, 109, 101, 110, 115, 105, 111, 110, 58, 32, 50, 56, 56, 48, 13, 10>>
    \* X-Binary-Size-Padding: 1
    \o <<88, 45, 66, 105, 110, 97, 114, 121, 45, 83, 105, 122, 101, 45, 80, 97, 100, 100, 105, 110, 103, 58, 32, 49, 13, 10>>
    \* Content-Type: application/octet-stream;
    \*      conversions="x-CBF_BYTE_OFFSET"
    \o <<67, 111, 110, 116, 101, 110, 116, 45, 84, 121, 112, 101, 58, 32, 97, 112, 112, 108, 105, 99, 97, 116, 105, 111, 110, 47, 111, 99, 116, 101, 116, 45, 115, 116, 114, 101, 97, 109, 59, 13, 10, 32, 32, 32, 32, 32, 99, 111, 110, 118, 101, 114, 115, 105, 111, 110, 115, 61, 34, 120, 45, 67, 66, 70, 95, 66, 89, 84, 69, 95, 79, 70, 70, 83, 69, 84, 34, 13, 10>>
    \* X-Binary-Size:   10161580
    \o <<88, 45, 66, 105, 110, 97, 114, 121, 45, 83, 105, 122, 101, 58, 32, 32, 32, 49, 48, 49, 54, 49, 53, 56, 48, 13, 10>>
    \* Content-MD5:     kL8G8UnwN1oKBdHWVkb0CQ==
    \o <<67, 111, 110, 116, 101, 110, 116, 45, 77, 68, 53, 58, 32, 32, 32, 32, 32, 107, 76, 56, 71, 56, 85, 110, 119, 78, 49, 111, 75, 66, 100, 72, 87, 86, 107, 98, 48, 67, 81, 61, 61, 13, 10>>
    \o BlankLine

\* header blocks that are written in other ways
OddBlocks ==
    { RealHeader,
      \* no field at all
      BlankLine,
      \* a body folded over three lines, the second of white space only
      EncodingField \o SizeField \o I32Field \o ByteOrderField \o CountField
        \o <<99, 111, 110, 116, 101, 110, 116, 45, 116, 121, 112, 101, 58, 32, 97, 112, 112, 108, 105, 99, 97, 116, 105, 111, 110, 47, 111, 99, 116, 101, 116, 45, 115, 116, 114, 101, 97, 109, 59, 13, 10, 32, 9, 13, 10, 9, 99, 111, 110, 118, 101, 114, 115, 105, 111, 110, 115, 61, 34, 120, 45, 67, 66, 70, 95, 66, 89, 84, 69, 95, 79, 70, 70, 83, 69, 84, 34, 13, 10>>
        \o BlankLine,
      \* the bodies of test_field_body: text;text twice, and white space
      \* before the colon
      <<102, 105, 114, 115, 116, 32, 58, 32, 116, 101, 120, 116, 59, 13, 10, 32, 32, 32, 32, 116, 101, 120, 116, 13, 10, 115, 101, 99, 111, 110, 100, 58, 116, 101, 120, 116, 59, 13, 10, 9, 116, 101, 120, 116, 13, 10>> \o BlankLine,
      \* a quoted body and a body with a quote that is not closed
      <<113, 117, 111, 116, 101, 100, 58, 32, 34, 113, 45, 115, 116, 114, 105, 110, 103, 34, 13, 10, 111, 112, 101, 110, 58, 32, 34, 116, 101, 120, 116, 13, 10, 116, 101, 120, 116, 58, 32, 116, 101, 120, 116, 32, 116, 101, 120, 116, 59, 34, 61, 58, 116, 101, 120, 116, 13, 10>> \o BlankLine,
      \* a field twice
      EncodingField \o SizeField \o SizeField \o BlankLine,
      \* a line that ends with a line feed alone
      EncodingField \o <<120, 45, 98, 105, 110, 97, 114, 121, 45, 115, 105, 122, 101, 58, 32, 50, 10>> \o I32Field \o BlankLine,
      \* a line that ends with a line feed alone before the blank line
      EncodingField \o <<120, 45, 98, 105, 110, 97, 114, 121, 45, 115, 105, 122, 101, 58, 32, 50, 10>> \o BlankLine \o BlankLine,
      \* a line without a colon
      EncodingField \o <<103, 97, 114, 98, 97, 103, 101, 13, 10>> \o BlankLine,
      \* a line without a field name
      EncodingField \o <<58, 32, 50, 13, 10>> \o BlankLine,
      \* a line that starts with a space and follows no field
      <<32, 99, 111, 110, 116, 101, 110, 116, 45, 116, 121, 112, 101, 58, 32, 116, 101, 120, 116, 47, 112, 108, 97, 105, 110, 13, 10>> \o BlankLine,
      \* a quoted body with text behind the quote
      EncodingField \o <<120, 45, 98, 105, 110, 97, 114, 121, 45, 101, 108, 101, 109, 101, 110, 116, 45, 116, 121, 112, 101, 58, 32, 34, 115, 105, 103, 110, 101, 100, 34, 32, 51, 50, 13, 10>> \o BlankLine,
      \* a line that is not UTF-8
      EncodingField \o <<120, 58, 255, 13, 10>> \o BlankLine }

\* the streams of one section; GoodHeader also cut short at every byte
HeaderStreams ==
    {Section(block) : block \in HeaderBlocks \cup OddBlocks}
    \cup {StartSentinel \o SubSeq(GoodHeader, 1, n) : n \in 0..Len(GoodHeader)}
    \cup {<<>>}

\* read_all_images(reader) on a stream of one section
InitHeaders ==
    /\ overflow_checks \in BOOLEAN
    /\ stream \in HeaderStreams
    /\ pos = 0
    /\ caller = "read_pixels"
    /\ P = "u8" /\ buf = <<>> /\ idx = 0 /\ base_value = Zero("u8")
    /\ decode_result = "none"
    /\ deltas = <<>>
    /\ line = <<>> /\ headers = NoHeaders /\ metadata = NoMetadata
    /\ steps = <<>> /\ marks = NoMarks
    /\ image_result = "none" /\ image = NoImageValue
    /\ images = <<>>
    /\ decoded = <<>>
    /\ returned = NotReturned
    /\ NoAnalysis
    /\ pc = "read_all_images"

SpecHeaders == InitHeaders /\ [][Next]_vars
---------------------------------------------------------------------------
(* The claims on the metadata and on the header block. *)

\* read_pixels was called by the current read_image and has returned or has
\* gone on to decode
ReadPixelsCalled == Len(steps) >= 5 /\ pc # "read_pixels"

\* the header is one that read_pixels takes: little endian, application/
\* octet-stream, binary
TakenByReadPixels(m) ==
    /\ m.byte_order = "LittleEndian"
    /\ m.content_type.mime_type = <<97, 112, 112, 108, 105, 99, 97, 116, 105, 111, 110>>
    /\ m.content_type.subtype = <<111, 99, 116, 101, 116, 45, 115, 116, 114, 101, 97, 109>>
    /\ m.content_transfer_encoding.encoding = "Binary"

\* the six signed or unsigned 8, 16, 32 bit integer types
IntegerTypes ==
    {"Unsigned8bitInteger", "Signed8bitInteger", "Unsigned16bitInteger",
     "Signed16bitInteger", "Unsigned32bitInteger", "Signed32bitInteger"}

\* no byte of the payload was decoded: the reader stands behind the magic bytes
NothingDecoded == deltas = <<>> /\ buf = <<>> /\ pos = marks.magic

(* C11, as stated: for a little-endian, application/octet-stream, binary   *)
(* header read_image fails with UnsupportedCompression exactly when the    *)
(* conversion is present and is not ByteOffset, and with                   *)
(* UnsupportedPixelFormat exactly when the conversion is ByteOffset and    *)
(* the element type is not one of the six integer types; no payload byte   *)
(* is decoded then.                                                        *)
C11_UnsupportedCompressionIffOtherConversion ==
    (ReadPixelsCalled /\ TakenByReadPixels(metadata)) =>
        /\ image_result = "UnsupportedCompression" <=>
               metadata.content_type.conversion \notin {"None", "ByteOffset"}
        /\ image_result = "UnsupportedPixelFormat" <=>
               /\ metadata.content_type.conversion = "ByteOffset"
               /\ metadata.element_type \notin IntegerTypes
        /\ image_result \in {"UnsupportedCompression", "UnsupportedPixelFormat"} =>
               NothingDecoded

(* C11, amended: for such a header read_image fails with                   *)
(* UnsupportedCompression exactly when the conversion is not ByteOffset,   *)
(* be it another conversion or none at all, and with                       *)
(* UnsupportedPixelFormat exactly when the conversion is ByteOffset and    *)
(* the element type is not one of the six integer types; no payload byte   *)
(* is decoded then.                                                        *)
C11_UnsupportedCompressionIffNotByteOffset ==
    (ReadPixelsCalled /\ TakenByReadPixels(metadata)) =>
        /\ image_result = "UnsupportedCompression" <=>
               metadata.content_type.conversion # "ByteOffset"
        /\ image_result = "UnsupportedPixelFormat" <=>
               /\ metadata.content_type.conversion = "ByteOffset"
               /\ metadata.element_type \notin IntegerTypes
        /\ image_result \in {"UnsupportedCompression", "UnsupportedPixelFormat"} =>
               NothingDecoded

\* C11's case: a packed section of an element type that is no integer type is
\* refused for its compression
C11_Witness ==
    /\ ReadPixelsCalled /\ TakenByReadPixels(metadata)
    /\ metadata.content_type.conversion = "Packed"
    /\ metadata.element_type = "Signed32bitReal"
    /\ image_result = "UnsupportedCompression"
    /\ pos = marks.magic

\* parse_metadata was called by the current read_image
MetadataParsed == Len(steps) >= 3 /\ marks.headers >= 0

\* the six fields that parse_metadata requires, by the name it gets them by,
\* with the error of the field that is missing
RequiredFields ==
    << <<<<99, 111, 110, 116, 101, 110, 116, 45, 116, 121, 112, 101>>, "MissingContentType">>,
       <<<<99, 111, 110, 116, 101, 110, 116, 45, 116, 114, 97, 110, 115, 102, 101, 114, 45, 101, 110, 99, 111, 100, 105, 110, 103>>, "MissingContentTransferEncoding">>,
       <<<<120, 45, 98, 105, 110, 97, 114, 121, 45, 115, 105, 122, 101>>, "MissingSize">>,
       <<<<120, 45, 98, 105, 110, 97, 114, 121, 45, 101, 108, 101, 109, 101, 110, 116, 45, 98, 121, 116, 101, 45, 111, 114, 100, 101, 114>>, "MissingByteOrder">>,
       <<<<120, 45, 98, 105, 110, 97, 114, 121, 45, 101, 108, 101, 109, 101, 110, 116, 45, 116, 121, 112, 101>>, "MissingElementType">>,
       <<<<120, 45, 98, 105, 110, 97, 114, 121, 45, 110, 117, 109, 98, 101, 114, 45, 111, 102, 45, 101, 108, 101, 109, 101, 110, 116, 115>>, "MissingElementCount">> >>

\* the header block has a field of that name, in whatever case it is written
Written(map, name) == \E key \in DOMAIN map : to_lowercase(key) = name

(* C12: read_metadata finds every field under the name the field parser    *)
(* stored it by, so that no field that the block has is reported missing:  *)
(* on the block of the reference file, whose names are written             *)
(* Content-Type, X-Binary-Size and so on, it succeeds with conversion      *)
(* ByteOffset, encoding Binary without charset, width and height 2880,     *)
(* byte order LittleEndian and element type Signed32bitInteger.            *)
C12_FieldsFoundByStoredName ==
    MetadataParsed =>
        /\ \A k \in 1..Len(RequiredFields) :
               image_result = RequiredFields[k][2] => ~Written(headers, RequiredFields[k][1])
        /\ stream = Section(RealHeader) =>
               /\ metadata.content_type.conversion = "ByteOffset"
               /\ metadata.content_transfer_encoding = [encoding |-> "Binary", charset |-> "None"]
               /\ metadata.width = Some(2880)
               /\ metadata.height = Some(2880)
               /\ metadata.byte_order = "LittleEndian"
               /\ metadata.element_type = "Signed32bitInteger"

\* the names of the conversions, of the encodings, of the charsets, of the
\* byte orders and of the element types
ConversionNames ==
    {<<120, 45, 99, 98, 102, 95, 112, 97, 99, 107, 101, 100>>, <<120, 45, 99, 98, 102, 95, 99, 97, 110, 111, 110, 105, 99, 97, 108>>, <<120, 45, 99, 98, 102, 95, 98, 121, 116, 101, 95, 111, 102, 102, 115, 101, 116>>,
     <<120, 45, 99, 98, 102, 95, 98, 97, 99, 107, 103, 114, 111, 117, 110, 100, 95, 111, 102, 102, 115, 101, 116, 95, 100, 101, 108, 116, 97>>}
EncodingNames ==
    {<<120, 45, 98, 97, 115, 101, 56>>, <<120, 45, 98, 97, 115, 101, 49, 48>>, <<120, 45, 98, 97, 115, 101, 49, 54>>, <<120, 45, 98, 97, 115, 101, 51, 50, 107>>, <<98, 97, 115, 101, 54, 52>>, <<98, 105, 110, 97, 114, 121>>,
     <<113, 117, 111, 116, 101, 100, 45, 112, 114, 105, 110, 116, 97, 98, 108, 101>>}
CharsetNames == {<<117, 115, 45, 97, 115, 99, 105, 105>>, <<117, 116, 102, 45, 56>>, <<117, 116, 102, 45, 49, 54>>}
ByteOrderNames == {<<108, 105, 116, 116, 108, 101, 95, 101, 110, 100, 105, 97, 110>>, <<98, 105, 103, 95, 101, 110, 100, 105, 97, 110>>}
ElementTypeNames ==
    {<<117, 110, 115, 105, 103, 110, 101, 100, 32, 49, 45, 98, 105, 116, 32, 105, 110, 116, 101, 103, 101, 114>>, <<117, 110, 115, 105, 103, 110, 101, 100, 32, 56, 45, 98, 105, 116, 32, 105, 110, 116, 101, 103, 101, 114>>, <<115, 105, 103, 110, 101, 100, 32, 56, 45, 98, 105, 116, 32, 105, 110, 116, 101, 103, 101, 114>>,
     <<117, 110, 115, 105, 103, 110, 101, 100, 32, 49, 54, 45, 98, 105, 116, 32, 105, 110, 116, 101, 103, 101, 114>>, <<115, 105, 103, 110, 101, 100, 32, 49, 54, 45, 98, 105, 116, 32, 105, 110, 116, 101, 103, 101, 114>>, <<117, 110, 115, 105, 103, 110, 101, 100, 32, 51, 50, 45, 98, 105, 116, 32, 105, 110, 116, 101, 103, 101, 114>>,
     <<115, 105, 103, 110, 101, 100, 32, 51, 50, 45, 98, 105, 116, 32, 105, 110, 116, 101, 103, 101, 114>>, <<115, 105, 103, 110, 101, 100, 32, 51, 50, 45, 98, 105, 116, 32, 114, 101, 97, 108, 32, 105, 101, 101, 101>>, <<115, 105, 103, 110, 101, 100, 32, 54, 52, 45, 98, 105, 116, 32, 114, 101, 97, 108, 32, 105, 101, 101, 101>>,
     <<115, 105, 103, 110, 101, 100, 32, 51, 50, 45, 98, 105, 116, 32, 99, 111, 109, 112, 108, 101, 120, 32, 105, 101, 101, 101>>}

\* the parameters of a value: what follows its first ';', in lower case, cut
\* at every ';' and trimmed; none when the value has no ';'
Parameters(v) ==
    LET semi == IndexOf(v, 59)
        parts == split(to_lowercase(SubSeq(v, semi + 1, Len(v))), 59) IN
    IF semi = 0 THEN <<>> ELSE [k \in 1..Len(parts) |-> trim(parts[k])]

\* what a parameter gives behind its name, without white space and quotes
ParameterValue(param, name) ==
    trim_matches(SubSeq(param, Len(name) + 1, Len(param)), WhitespaceOrQuote)

\* the value is a number: digits, with or without a '+' before them
IsNumber(v) ==
    LET d == IF v # <<>> /\ v[1] = 43 THEN Tail(v) ELSE v IN
    d # <<>> /\ \A k \in 1..Len(d) : d[k] \in 48..57

\* the type of a Content-Type has no '/'
NoSubtype(v) ==
    LET semi == IndexOf(v, 59) IN
    IndexOf(IF semi = 0 THEN v ELSE SubSeq(v, 1, semi - 1), 47) = 0

\* a Content-Type has a conversions parameter that names no conversion
UnknownConversion(v) ==
    \E k \in 1..Len(Parameters(v)) :
        /\ starts_with(Parameters(v)[k], <<99, 111, 110, 118, 101, 114, 115, 105, 111, 110, 115, 61>>)
        /\ ParameterValue(Parameters(v)[k], <<99, 111, 110, 118, 101, 114, 115, 105, 111, 110, 115, 61>>) \notin ConversionNames

\* the first part of a Content-Transfer-Encoding names no encoding
UnknownEncoding(v) ==
    LET semi == IndexOf(v, 59) IN
    trim(to_lowercase(IF semi = 0 THEN v ELSE SubSeq(v, 1, semi - 1))) \notin EncodingNames

\* the first charset parameter of a Content-Transfer-Encoding names no charset
UnknownCharset(v) ==
    LET params == Parameters(v)
        found == {k \in 1..Len(params) : starts_with(params[k], <<99, 104, 97, 114, 115, 101, 116, 61>>)}
        first == CHOOSE k \in found : \A m \in found : k <= m IN
    /\ found # {}
    /\ trim_matches(split(params[first], 61)[2], WhitespaceOrQuote) \notin CharsetNames

\* the error of the k-th required field of the block, "" when the field is
\* there and parses; invalid gives the errors of the two fields, the content
\* type and the content transfer encoding, whose parts are parsed one by one
RequiredFieldError(map, k, invalid) ==
    LET name == RequiredFields[k][1]
        v == map[name] IN
    IF name \notin DOMAIN map THEN RequiredFields[k][2]
    ELSE CASE k = 1 -> IF NoSubtype(v) THEN "InvalidContentType"
                       ELSE IF UnknownConversion(v) THEN invalid[1]
                       ELSE ""
           [] k = 2 -> IF UnknownEncoding(v) THEN invalid[2]
                       ELSE IF UnknownCharset(v) THEN invalid[3]
                       ELSE ""
           [] k = 3 -> IF IsNumber(v) THEN "" ELSE "InvalidSize"
           [] k = 4 -> IF to_lowercase(v) \in ByteOrderNames THEN "" ELSE "InvalidByteOrder"
           [] k = 5 -> IF to_lowercase(v) \in ElementTypeNames THEN "" ELSE "InvalidElementType"
           [] k = 6 -> IF IsNumber(v) THEN "" ELSE "InvalidElementCount"

\* the fields that parse_metadata builds before the k-th required field are
\* there and parse; the padding is built between the size and the byte order
FieldsBeforeParse(map, k, invalid) ==
    /\ \A j \in 1..(k - 1) : RequiredFieldError(map, j, invalid) = ""
    /\ (k > 3 /\ <<120, 45, 98, 105, 110, 97, 114, 121, 45, 115, 105, 122, 101, 45, 112, 97, 100, 100, 105, 110, 103>> \in DOMAIN map) =>
           IsNumber(map[<<120, 45, 98, 105, 110, 97, 114, 121, 45, 115, 105, 122, 101, 45, 112, 97, 100, 100, 105, 110, 103>>])

\* parse_metadata gives the error of the first required field that is absent
\* or does not parse
OwnErrors(invalid) ==
    MetadataParsed =>
        \A k \in 1..Len(RequiredFields) :
            (/\ RequiredFieldError(headers, k, invalid) # ""
             /\ FieldsBeforeParse(headers, k, invalid)) =>
                image_result = RequiredFieldError(headers, k, invalid)

(* C13, as stated: each of the six required fields gives its own Missing   *)
(* error when it is absent and its own Invalid error when its value does   *)
(* not parse: InvalidContentType, InvalidContentTransferEncoding,          *)
(* InvalidSize, InvalidByteOrder, InvalidElementType, InvalidElementCount. *)
C13_OwnMissingAndInvalidErrors ==
    OwnErrors(<<"InvalidContentType", "InvalidContentTransferEncoding",
                "InvalidContentTransferEncoding">>)

(* C13, amended: each of the six required fields gives its own Missing     *)
(* error when it is absent; a value that does not parse gives InvalidSize, *)
(* InvalidByteOrder, InvalidElementType, InvalidElementCount for these     *)
(* four fields, InvalidContentType (no '/') or InvalidConversion (unknown  *)
(* conversion) for the content type, and InvalidEncoding (unknown          *)
(* encoding) or InvalidCharset (unknown charset) for the content transfer  *)
(* encoding.                                                               *)
C13_MissingAndInvalidErrorsOfParts ==
    OwnErrors(<<"InvalidConversion", "InvalidEncoding", "InvalidCharset">>)

\* C13's case: a block with an unknown encoding and without its element type
\* fails on the encoding, which is parsed first
C13_Witness ==
    /\ MetadataParsed
    /\ image_result = "InvalidEncoding"
    /\ <<99, 111, 110, 116, 101, 110, 116, 45, 116, 114, 97, 110, 115, 102, 101, 114, 45, 101, 110, 99, 111, 100, 105, 110, 103>> \in DOMAIN headers
    /\ <<120, 45, 98, 105, 110, 97, 114, 121, 45, 101, 108, 101, 109, 101, 110, 116, 45, 116, 121, 112, 101>> \notin DOMAIN headers

---------------------------------------------------------------------------
(* The text of a field, as the bytes of the header block show it. *)

RECURSIVE Parts(_)
\* the parts of a body: the body is cut at every CRLF, and the white space
\* that follows the CRLF is dropped
Parts(s) ==
    LET j == FindCrLf(s, 1) IN
    IF j = 0 THEN <<s>>
    ELSE <<SubSeq(s, 1, j - 1)>> \o Parts(SubSeq(s, SkipWhile(s, j + 2, Lwsp), Len(s)))

\* what a part gives: a part in quotes, with no quote and no backslash in
\* between, gives the text between the quotes, another part gives itself
PartValue(part) ==
    IF /\ Len(part) >= 2 /\ part[1] = 34 /\ part[Len(part)] = 34
       /\ \A k \in 2..(Len(part) - 1) : part[k] \notin {34, 92}
    THEN SubSeq(part, 2, Len(part) - 1)
    ELSE part

RECURSIVE Concatenated(_)
\* the values of the parts one after the other, nothing in between
Concatenated(parts) ==
    IF parts = <<>> THEN <<>> ELSE PartValue(Head(parts)) \o Concatenated(Tail(parts))

\* the name of the field that the text starts with
WrittenName(txt) ==
    SubSeq(txt, 1, SkipWhile(txt, 1, (0..255) \ {32, 9, 58}) - 1)

\* the body of the field that the text is: what stands between the colon with
\* the white space after it and the last CRLF
WrittenBody(txt) ==
    SubSeq(txt, SkipWhile(txt, IndexOf(txt, 58) + 1, Lwsp), Len(txt) - 2)

\* what the step of read_header has taken from the front of line
Taken == SubSeq(line, 1, Len(line) - Len(line'))

(* C14: a field body that continues on lines beginning with a space or a   *)
(* tab is returned as one value, the parts of the lines in order with      *)
(* nothing between them, without the CRLF and the leading white space of   *)
(* the continuation lines, and it is one field of the block: text; CRLF    *)
(* 4 spaces text gives text;text, and the block of the reference file has  *)
(* 11 fields, the folded Content-Type one of them.                         *)
C14_FoldedBodyIsOneValue ==
    [][/\ (pc = "read_header" /\ headers' # headers) =>
              /\ DOMAIN headers' = DOMAIN headers \cup {WrittenName(Taken)}
              /\ headers'[WrittenName(Taken)] = Concatenated(Parts(WrittenBody(Taken)))
              /\ \A name \in DOMAIN headers \ {WrittenName(Taken)} :
                     headers'[name] = headers[name]
       /\ (stream = Section(RealHeader) /\ MetadataParsed') =>
              /\ Cardinality(DOMAIN headers') = 11
              /\ headers'[<<67, 111, 110, 116, 101, 110, 116, 45, 84, 121, 112, 101>>] =
                     <<97, 112, 112, 108, 105, 99, 97, 116, 105, 111, 110, 47, 111, 99, 116, 101, 116, 45, 115, 116, 114, 101, 97, 109, 59, 99, 111, 110, 118, 101, 114, 115, 105, 111, 110, 115, 61, 34, 120, 45, 67, 66, 70, 95, 66, 89, 84, 69, 95, 79, 70, 70, 83, 69, 84, 34>>
      ]_vars

\* C14's case: the two folded bodies of test_field_body are two fields
C14_Witness ==
    /\ DOMAIN headers = {<<102, 105, 114, 115, 116>>, <<115, 101, 99, 111, 110, 100>>}
    /\ headers[<<102, 105, 114, 115, 116>>] = <<116, 101, 120, 116, 59, 116, 101, 120, 116>>
    /\ headers[<<115, 101, 99, 111, 110, 100>>] = <<116, 101, 120, 116, 59, 116, 101, 120, 116>>
    /\ SubSeq(stream, Len(StartSentinel) + 1, Len(StartSentinel) + 25)
           = <<102, 105, 114, 115, 116, 32, 58, 32, 116, 101, 120, 116, 59, 13, 10, 32, 32, 32, 32, 116, 101, 120, 116, 13, 10>>

\* the offset after the line that starts at the offset p of the stream s
LineEnd(s, p) ==
    LET feeds == {k \in (p + 1)..Len(s) : s[k] = LF} IN
    IF feeds = {} THEN Len(s) ELSE CHOOSE k \in feeds : \A f \in feeds : k <= f

\* the text starts with no field name
EmptyName(txt) == txt[1] \notin FieldNameChars

\* the text has a field name, and what follows the name and the white space
\* after it is not a colon
NoColon(txt) ==
    LET j == SkipWhile(txt, 1, FieldNameChars)
        k == SkipWhile(txt, j, Lwsp) IN
    j > 1 /\ k <= Len(txt) /\ txt[k] # 58

Malformed(txt) == EmptyName(txt) \/ NoColon(txt)

\* the text has a CRLF with a character after it that is no white space: the
\* field ends there
Complete(txt) ==
    \E j \in 1..(Len(txt) - 2) :
        txt[j] = CR /\ txt[j + 1] = LF /\ txt[j + 2] \notin Lwsp

\* a part of the body starts with a quote
QuoteStart(txt) ==
    \E k \in 2..Len(txt) :
        /\ txt[k] = 34
        /\ \E m \in 1..(k - 1) :
               /\ txt[m] \in {58, LF}
               /\ \A i \in (m + 1)..(k - 1) : txt[i] \in Lwsp

\* the outcomes of a step of read_header
FieldTaken ==
    /\ pos' = pos /\ pc' = pc
    /\ Len(line') < Len(line)
    /\ line' = SubSeq(line, Len(line) - Len(line') + 1, Len(line))
OneMoreLine ==
    /\ pos < Len(stream)
    /\ pos' = LineEnd(stream, pos)
    /\ \/ line' = line \o SubSeq(stream, pos + 1, pos') /\ pc' = pc /\ headers' = headers
       \/ ~TextFrom(SubSeq(stream, 1, pos'), pos) /\ image_result' = "Reading(IO(InvalidData))"
UnexpectedEof ==
    /\ pos = Len(stream) /\ pos' = pos
    /\ image_result' = "Reading(IO(UnexpectedEof))"
    /\ pc' = "try_read_next_image"
SyntaxError ==
    /\ pos' = pos /\ line' = line
    /\ image_result' = "Reading(Parsing)"
    /\ pc' = "try_read_next_image"

BlankLineEnd(s, p) ==
    LET blanks == {a \in p..(Len(s) - 2) :
                      /\ s[a + 1] = CR /\ s[a + 2] = LF
                      /\ \/ a = p
                         \/ a >= p + 2 /\ s[a - 1] = CR /\ s[a] = LF} IN
    IF blanks = {} THEN -1
    ELSE (CHOOSE a \in blanks : \A b \in blanks : a <= b) + 2

(* C16: when read_headers succeeds on a header block that ends with a      *)
(* blank CRLF line, it has consumed the stream up to and including that    *)
(* blank line and not a byte more: the magic bytes that follow are still   *)
(* unread when read_binary_header is called.                               *)
C16_ConsumedToBlankLine ==
    (MetadataParsed /\ BlankLineEnd(stream, marks.start) # -1) =>
        /\ marks.headers = BlankLineEnd(stream, marks.start)
        /\ line = <<CR, LF>>
        /\ pc = "read_binary_header" => pos = marks.headers

\* C16's case: the folded header block is read and the reader stands before
\* the magic bytes
C16_Witness ==
    /\ stream = Section(GoodHeader)
    /\ pc = "read_binary_header"
    /\ pos = Len(StartSentinel) + Len(GoodHeader)
    /\ SubSeq(stream, pos + 1, pos + 4) = Magic

\* the greatest index of a set of indexes
Last(indexes) == CHOOSE k \in indexes : \A m \in indexes : m <= k

\* the conversion that the parameters select: the one of the last
\* conversions= token, "None" without such a token
SelectedConversion(params) ==
    LET tokens == {k \in 1..Len(params) : starts_with(params[k], <<99, 111, 110, 118, 101, 114, 115, 105, 111, 110, 115, 61>>)}
        name == ParameterValue(params[Last(tokens)], <<99, 111, 110, 118, 101, 114, 115, 105, 111, 110, 115, 61>>) IN
    IF tokens = {} THEN "None"
    ELSE CASE name = <<120, 45, 99, 98, 102, 95, 112, 97, 99, 107, 101, 100>> -> "Packed"
           [] name = <<120, 45, 99, 98, 102, 95, 99, 97, 110, 111, 110, 105, 99, 97, 108>> -> "Canonical"
           [] name = <<120, 45, 99, 98, 102, 95, 98, 121, 116, 101, 95, 111, 102, 102, 115, 101, 116>> -> "ByteOffset"
           [] name = <<120, 45, 99, 98, 102, 95, 98, 97, 99, 107, 103, 114, 111, 117, 110, 100, 95, 111, 102, 102, 115, 101, 116, 95, 100, 101, 108, 116, 97>> -> "BackgroundOffsetDelta"

\* the packed kind that the parameters select: the one of the last token that
\* begins with uncorrelated_sections or with flat, "None" without such a token
SelectedPackedKind(params) ==
    LET tokens == {k \in 1..Len(params) :
                      /\ ~starts_with(params[k], <<99, 111, 110, 118, 101, 114, 115, 105, 111, 110, 115, 61>>)
                      /\ \/ starts_with(params[k], <<117, 110, 99, 111, 114, 114, 101, 108, 97, 116, 101, 100, 95, 115, 101, 99, 116, 105, 111, 110, 115>>)
                         \/ starts_with(params[k], <<102, 108, 97, 116>>)} IN
    IF tokens = {} THEN "None"
    ELSE IF starts_with(params[Last(tokens)], <<102, 108, 97, 116>>) THEN "Flat"
    ELSE "UncorrelatedSections"

\* parse_metadata has given the metadata
MetadataGiven == MetadataParsed /\ metadata.byte_order # ""

(* C17: in the parameters of a Content-Type a token beginning with         *)
(* uncorrelated_sections or flat selects the packed kind, before or after  *)
(* the conversions= token; the result has the packed kind only when the    *)
(* selected conversion is Packed: another conversion has no packed kind,   *)
(* and Packed without such a token is Packed(None).                        *)
C17_PackedKindOnlyWithPacked ==
    MetadataGiven =>
        LET params == Parameters(headers[<<99, 111, 110, 116, 101, 110, 116, 45, 116, 121, 112, 101>>]) IN
        /\ metadata.content_type.conversion = SelectedConversion(params)
        /\ metadata.content_type.packed_kind =
               IF SelectedConversion(params) = "Packed"
               THEN SelectedPackedKind(params)
               ELSE "None"

\* C17's case: flat before conversions="X-CBF_PACKED" gives Packed(Some(Flat))
C17_Witness ==
    /\ MetadataGiven
    /\ headers[<<99, 111, 110, 116, 101, 110, 116, 45, 116, 121, 112, 101>>] = <<97, 112, 112, 108, 105, 99, 97, 116, 105, 111, 110, 47, 111, 99, 116, 101, 116, 45, 115, 116, 114, 101, 97, 109, 59, 102, 108, 97, 116, 59, 99, 111, 110, 118, 101, 114, 115, 105, 111, 110, 115, 61, 34, 88, 45, 67, 66, 70, 95, 80, 65, 67, 75, 69, 68, 34>>
    /\ metadata.content_type.conversion = "Packed"
    /\ metadata.content_type.packed_kind = "Flat"
---------------------------------------------------------------------------
(* Calls of Image::get_pixel on an image, with a linear index and with a   *)
(* centered coordinate.                                                    *)

\* the variables of the decoder where nothing is decoded
NoDecoder ==
    /\ stream = <<>> /\ pos = 0 /\ caller = "test"
    /\ buf = <<>> /\ idx = 0 /\ base_value = Zero("u8")
    /\ decode_result = "none"
    /\ deltas = <<>>
    /\ line = <<>> /\ headers = NoHeaders /\ metadata = NoMetadata
    /\ steps = <<>> /\ marks = NoMarks
    /\ image_result = "none" /\ image = NoImageValue
    /\ images = <<>>
    /\ decoded = <<>>
    /\ returned = NotReturned

\* an image of any size of the model, before a call of get_pixel
InitImage ==
    /\ overflow_checks \in BOOLEAN
    /\ NoDecoder
    /\ P = "u8"
    /\ sampled \in Images
    /\ coordinate = NoCoordinate
    /\ index_result = NotCalled
    /\ pixel = NotCalled
    /\ accumulator = Average_default
    /\ added = NothingAdded
    /\ mean = NotCalled
    /\ NoRadial
    /\ pc = "get_pixel"

\* sampled.get_pixel(i) with a usize i; a panic ends the program
GetPixelLinear ==
    /\ pc = "get_pixel"
    /\ \E c \in LinearCoordinates :
         /\ coordinate' = c
         /\ index_result' = index(c, sampled.width, sampled.height, overflow_checks)
         /\ pixel' = get_pixel(sampled, c, overflow_checks)
    /\ pc' = IF pixel'.st = "panic" THEN "panicked" ELSE pc
    /\ UNCHANGED <<inputVars, pos, decodeVars, headerVars, steps, marks, image_result,
                   image, outVars, sampled, averageVars, radialVars>>

\* sampled.get_pixel((x, y)) with an (isize, isize); a panic ends the program
GetPixelCentered ==
    /\ pc = "get_pixel"
    /\ \E c \in CenteredCoordinates :
         /\ coordinate' = c
         /\ index_result' = index(c, sampled.width, sampled.height, overflow_checks)
         /\ pixel' = get_pixel(sampled, c, overflow_checks)
    /\ pc' = IF pixel'.st = "panic" THEN "panicked" ELSE pc
    /\ UNCHANGED <<inputVars, pos, decodeVars, headerVars, steps, marks, image_result,
                   image, outVars, sampled, averageVars, radialVars>>

NextImage == GetPixelLinear \/ GetPixelCentered

SpecImage == InitImage /\ [][NextImage]_vars
---------------------------------------------------------------------------
(* C18: the linear index. *)

\* index() was called with a usize
LinearCall == coordinate.type = "usize"

\* C18: for every width and every height, 0 included, and every linear index i,
\* index() yields Some(i) when i < width * height, and no value otherwise.
C18_LinearIndexValidIffInside ==
    LinearCall =>
        index_result = IF coordinate.value[1] < sampled.width * sampled.height
                       THEN SomeValue(coordinate.value[1])
                       ELSE NoValue
---------------------------------------------------------------------------
(* C19: the centered coordinate. *)

\* get_pixel was called with an (isize, isize)
CenteredCall == coordinate.type = "pair"

\* x + width/2 and y + height/2 of the call
CenterX == coordinate.value[1] + (sampled.width \div 2)
CenterY == coordinate.value[2] + (sampled.height \div 2)

\* the point lies on the image
Inside ==
    /\ 0 <= CenterX /\ CenterX < sampled.width
    /\ 0 <= CenterY /\ CenterY < sampled.height

\* C19: get_pixel with a centered coordinate (x, y) yields the pixel at linear
\* index (y + height/2) * width + (x + width/2) when x + width/2 lies in
\* [0, width) and y + height/2 in [0, height); for every other coordinate,
\* x + width/2 = width included, it yields no value and does not fail.
C19_CenteredPixelIffInside ==
    CenteredCall =>
        pixel = IF Inside
                THEN SomeValue(sampled.pixels[CenterY * sampled.width + CenterX + 1])
                ELSE NoValue
---------------------------------------------------------------------------
(* Calls of add and average on one Average<P>. *)

\* Average::<P>::default() of an integer type P
InitAverage ==
    /\ overflow_checks \in BOOLEAN
    /\ NoDecoder
    /\ P \in PixelTypes
    /\ sampled = ImageOf(0, 0)
    /\ coordinate = NoCoordinate
    /\ index_result = NotCalled
    /\ pixel = NotCalled
    /\ accumulator = Average_default
    /\ added = NothingAdded
    /\ mean = NotCalled
    /\ NoRadial
    /\ pc = "average"

\* accumulator.add(value)
Add ==
    /\ pc = "average"
    /\ accumulator.count < MaxAdded
    /\ \E k \in 1..Len(AddedValues(P)) :
         /\ accumulator' = add(accumulator, P, AddedValues(P)[k])
         /\ added' = [added EXCEPT ![k] = @ + 1]
    /\ mean' = NotCalled
    /\ UNCHANGED <<inputVars, pos, pc, decodeVars, headerVars, steps, marks, image_result,
                   image, outVars, imageVars, radialVars>>

\* accumulator.average(); a panic ends the program
Average ==
    /\ pc = "average"
    /\ mean' = average(accumulator, P)
    /\ pc' = IF mean'.st = "panic" THEN "panicked" ELSE pc
    /\ UNCHANGED <<inputVars, pos, decodeVars, headerVars, steps, marks, image_result,
                   image, outVars, imageVars, accumulator, added,
                   radialVars>>

NextAverage == Add \/ Average

SpecAverage == InitAverage /\ [][NextAverage]_vars
---------------------------------------------------------------------------
(* C20: the mean of an integer Average.  The values added are read off the *)
(* history and compared with the result in base 256, column by column, so  *)
(* that no number of the comparison is larger than a few thousands.        *)

RECURSIVE TimesAdded(_, _)
\* the number of values added, counted over the first n entries of the history
TimesAdded(h, n) == IF n = 0 THEN 0 ELSE h[n] + TimesAdded(h, n - 1)

\* the number of values added
Added == TimesAdded(added, Len(added))

\* the k-th digit in base 256 of a value v of type T, k in 1..9: the digits 1..8
\* are the bytes of v widened to 64 bits, the digit 9 is -1 for a negative v
Digit(T, v, k) ==
    IF k <= 8 THEN Widen(T, v)[k]
    ELSE IF IsSigned(T) /\ IsNegative(v) THEN -1 ELSE 0

RECURSIVE DigitSum(_, _, _, _)
\* the sum of the k-th digits of the values added, over the first n entries
DigitSum(T, h, n, k) ==
    IF n = 0 THEN 0
    ELSE h[n] * Digit(T, AddedValues(T)[n], k) + DigitSum(T, h, n - 1, k)

\* a number beyond which an excess is known to be out of range
Far == 1000 * 1000

Near(x) == IF x > Far THEN Far ELSE IF x < 0 - Far THEN 0 - Far ELSE x

RECURSIVE Excess(_, _, _, _)
\* (the sum of the values added) - (their number) * r, from digit k upward
\* and divided by 256^(k-1); kept within Far
Excess(T, h, r, k) ==
    IF k > 9 THEN 0
    ELSE Near(Excess(T, h, r, k + 1) * 256
              + DigitSum(T, h, Len(h), k) - TimesAdded(h, Len(h)) * Digit(T, r, k))

\* r is zero
IsZero(r) == \A k \in 1..Len(r) : r[k] = 0

\* r is the exact sum of the values added divided by their number and truncated
\* toward zero: the sum is n * r + e with 0 <= e < n for a positive r,
\* -n < e <= 0 for a negative r, -n < e < n for r = 0
IsTruncatedMean(T, h, r) ==
    LET n == TimesAdded(h, Len(h))
        e == Excess(T, h, r, 1) IN
    IF IsZero(r) THEN 0 - n < e /\ e < n
    ELSE IF IsSigned(T) /\ IsNegative(r) THEN 0 - n < e /\ e <= 0
    ELSE 0 <= e /\ e < n

\* average() has returned and no value was added since
AverageReturned == mean.st # "none"

\* C20: on an integer Average that received at least one value, average()
\* returns the exact sum of all the values added so far divided by their
\* number, truncated toward zero, whatever the width of the type and the
\* number of values; the call changes nothing, so a second call with no add
\* in between returns the same value.
C20_AverageIsExactTruncatedMean ==
    [][(AverageReturned' /\ Added' >= 1) =>
          /\ mean'.st = "Some"
          /\ IsTruncatedMean(P', added', mean'.value[1])
          /\ (mean' # mean => accumulator' = accumulator /\ added' = added)
          /\ average(accumulator', P') = mean']_vars

\* the test small_i32: the five values -1073741821 .. -1073741825, whose sum is
\* below i32::MIN, have the mean -1073741823
C20_Witness ==
    /\ P = "i32"
    /\ added = <<1, 1, 1, 1, 1, 0, 0>>
    /\ mean = SomeValue(<<1, 0, 0, 192>>)
---------------------------------------------------------------------------
(* A call of radial_difraction_analysis(image, config, sampler_method).    *)
(* The sampler is any FnMut: what it returns at a call is a free choice.   *)

\* the valid configs: AnalysisConfig::new returned Some
Configs ==
    {AnalysisConfig_new(theta, intensity, radius).value[1] :
        theta \in 0..MaxBins, intensity \in 0..MaxBins, radius \in {0, Sqrt2}}

\* the entry of radial_difraction_analysis: `let mut samples = allocate_slice(..)`
InitAnalysis ==
    /\ overflow_checks \in BOOLEAN
    /\ NoDecoder
    /\ P \in {"u8", "i64"}
    /\ sampled = ImageOf(1, 1)
    /\ coordinate = NoCoordinate
    /\ index_result = NotCalled
    /\ pixel = NotCalled
    /\ accumulator = Average_default
    /\ added = NothingAdded
    /\ mean = NotCalled
    /\ config \in Configs
    /\ samples = allocate_slice(config.theta_sample_count)
    /\ angle_index = 0
    /\ radius_index = 0
    /\ sampler_calls = <<>>
    /\ profile = NotCalled
    /\ pc = "radial_difraction_analysis"

\* the two loops have a turn left
InLoops ==
    /\ angle_index < config.intensity_sample_count
    /\ radius_index < config.theta_sample_count

\* one turn of the inner loop: sampler_method(image, angle, r) and the add
CallSampler ==
    /\ pc = "radial_difraction_analysis"
    /\ InLoops
    /\ \E r \in SamplerReturns :
         /\ sampler_calls' = Append(sampler_calls,
                [angle |-> angle_index, radius |-> radius_index, returned |-> r])
         /\ samples' = IF r = 0 THEN samples
                       ELSE samples_add(samples, radius_index, P, AddedValues(P)[r])
    /\ IF radius_index + 1 < config.theta_sample_count
       THEN radius_index' = radius_index + 1 /\ angle_index' = angle_index
       ELSE radius_index' = 0 /\ angle_index' = angle_index + 1
    /\ UNCHANGED <<inputVars, pos, pc, decodeVars, headerVars, steps, marks, image_result,
                   image, outVars, imageVars, averageVars, config, profile>>

\* the loops are over: compute_average_slice(samples); a panic ends the program
ComputeAverageSlice ==
    /\ pc = "radial_difraction_analysis"
    /\ ~InLoops
    /\ profile' = compute_average_slice(samples, P)
    /\ pc' = IF profile'.st = "panic" THEN "panicked" ELSE "analysed"
    /\ UNCHANGED <<inputVars, pos, decodeVars, headerVars, steps, marks, image_result,
                   image, outVars, imageVars, averageVars, config, samples, angle_index,
                   radius_index, sampler_calls>>

NextAnalysis == CallSampler \/ ComputeAverageSlice

SpecAnalysis == InitAnalysis /\ [][NextAnalysis]_vars
---------------------------------------------------------------------------
(* C21: the profile of radial_difraction_analysis. *)

\* radial_difraction_analysis has ended, with a profile or with a panic
AnalysisEnded == pc \in {"analysed", "panicked"} /\ profile.st # "none"

\* the calls of the sampler with the angle index i and the radius index j
CallsAt(i, j) ==
    {n \in 1..Len(sampler_calls) :
        sampler_calls[n].angle = i /\ sampler_calls[n].radius = j}

\* how many times the sampler returned each value at the radius index j, over
\* all the angle indices
ReturnedAt(j) ==
    [k \in 1..7 |->
        Cardinality({n \in 1..Len(sampler_calls) :
            sampler_calls[n].radius = j /\ sampler_calls[n].returned = k})]

\* the sampler was called once for every pair and for nothing else
OncePerPair ==
    /\ Len(sampler_calls) = config.intensity_sample_count * config.theta_sample_count
    /\ \A i \in 0..(config.intensity_sample_count - 1) :
         \A j \in 0..(config.theta_sample_count - 1) : Cardinality(CallsAt(i, j)) = 1

\* the profile has one entry for every radius index, in increasing index, and
\* the entry j is the mean of the values returned at the radius index j
ProfileOfMeans ==
    /\ profile.st = "Some"
    /\ Len(profile.value[1]) = config.theta_sample_count
    /\ \A j \in 0..(config.theta_sample_count - 1) :
         IsTruncatedMean(P, ReturnedAt(j), profile.value[1][j + 1])

\* C21: radial_difraction_analysis calls the sampler once for every pair of an
\* angle index and a radius index and returns a profile with one entry for
\* every radius index, in increasing index: the entry j is the average of
\* exactly the values the sampler returned at the radius index j over all the
\* angle indices, the calls that returned no value being skipped.
C21_ProfileOfAveragesPerRadius ==
    AnalysisEnded => OncePerPair /\ ProfileOfMeans
---------------------------------------------------------------------------
(* C23: producing the profile. *)

\* C23: radial_difraction_analysis returns a profile for every valid config,
\* also when the sampler returned no value at some radius index for every
\* angle, or when there is no angle at all: producing the profile never fails.
C23_ProfileNeverFails ==
    AnalysisEnded =>
        /\ profile.st = "Some"
        /\ Len(profile.value[1]) = config.theta_sample_count
---------------------------------------------------------------------------
(* C22: the sections that follow a section without its end sentinel line. *)

\* the well-formed sections the streams are put together from, each with the
\* image its header block and its payload describe: 42 24 is 66 then 66 + 36,
\* 24 FF is 36 then 36 - 1, 80 20 04 FF is 1056 then 1056 - 1
WellFormedSections ==
    { [bytes |-> StartSentinel \o GoodHeader \o BinaryHeader \o <<66, 36>>
                   \o BlankLine \o EndSentinel,
       end_sentinel |-> TRUE,
       image |-> [width |-> 2, height |-> 1,
                  pixels |-> [type |-> "i32",
                              data |-> << <<66, 0, 0, 0>>, <<102, 0, 0, 0>> >>]]],
      [bytes |-> StartSentinel
                   \o Header(ContentTypeField, ByteOrderField, U8Field,
                             WidthField \o HeightField)
                   \o BinaryHeader \o <<36, 255>> \o BlankLine \o EndSentinel \o TextLine,
       end_sentinel |-> TRUE,
       image |-> [width |-> 2, height |-> 1,
                  pixels |-> [type |-> "u8", data |-> << <<36>>, <<35>> >>]]],
      [bytes |-> StartSentinel \o GoodHeader \o BinaryHeader \o <<128, 32, 4, 255>>,
       end_sentinel |-> FALSE,
       image |-> [width |-> 2, height |-> 1,
                  pixels |-> [type |-> "i32",
                              data |-> << <<32, 4, 0, 0>>, <<31, 4, 0, 0>> >>]]] }

\* the ways to put at most MaxPieces well-formed sections one after another
SectionLayouts == UNION {[1..n -> WellFormedSections] : n \in 1..MaxPieces}

RECURSIVE BytesOf(_)
\* the stream a layout writes
BytesOf(layout) ==
    IF layout = <<>> THEN <<>>
    ELSE BytesOf(SubSeq(layout, 1, Len(layout) - 1)) \o layout[Len(layout)].bytes

\* C22: read_all_images returns, in stream order, one image for every
\* well-formed section of the stream, also for the sections that come after a
\* section without its end sentinel line: the search for the missing end
\* sentinel line consumes nothing of the section that follows.
C22_ImageForEveryWellFormedSection ==
    \A layout \in SectionLayouts :
        (pc = "returned" /\ stream = BytesOf(layout)) =>
            returned = [status |-> "Ok", error |-> "",
                        images |-> [k \in 1..Len(layout) |-> layout[k].image]]
---------------------------------------------------------------------------
(* read_image on a section in which several things are wrong at once. *)

\* what is wrong in the section: a header line without a colon, an element
\* count that is no number, wrong magic bytes, a big endian byte order, a
\* content type text/plain, the encoding BASE64, the conversion x-CBF_PACKED,
\* a real element type, a payload cut in an escape chain, no dimension fields
Faults ==
    [header : BOOLEAN, metadata : BOOLEAN, magic : BOOLEAN, byte_order : BOOLEAN,
     content_type : BOOLEAN, encoding : BOOLEAN, compression : BOOLEAN,
     pixel_format : BOOLEAN, payload : BOOLEAN, dimension : BOOLEAN]

\* the section of two i32 samples, 42 24, with the faults f
FaultySection(f) ==
    StartSentinel
    \* content-transfer-encoding: BASE64
    \o (IF f.encoding THEN <<99, 111, 110, 116, 101, 110, 116, 45, 116, 114, 97, 110, 115, 102, 101, 114, 45, 101, 110, 99, 111, 100, 105, 110, 103, 58, 32, 66, 65, 83, 69, 54, 52, 13, 10>> ELSE EncodingField)
    \o SizeField
    \* x-binary-element-type: "signed 32-bit real IEEE"
    \o (IF f.pixel_format THEN <<120, 45, 98, 105, 110, 97, 114, 121, 45, 101, 108, 101, 109, 101, 110, 116, 45, 116, 121, 112, 101, 58, 32, 34, 115, 105, 103, 110, 101, 100, 32, 51, 50, 45, 98, 105, 116, 32, 114, 101, 97, 108, 32, 73, 69, 69, 69, 34, 13, 10>>
        ELSE I32Field)
    \o (IF f.byte_order THEN BigEndianField ELSE ByteOrderField)
    \* x-binary-number-of-elements: two
    \o (IF f.metadata THEN <<120, 45, 98, 105, 110, 97, 114, 121, 45, 110, 117, 109, 98, 101, 114, 45, 111, 102, 45, 101, 108, 101, 109, 101, 110, 116, 115, 58, 32, 116, 119, 111, 13, 10>> ELSE CountField)
    \o (IF f.dimension THEN <<>> ELSE WidthField \o HeightField)
    \* content-type: text/plain or application/octet-stream, then
    \* ;conversions="x-CBF_PACKED" or ;conversions="x-CBF_BYTE_OFFSET"
    \o <<99, 111, 110, 116, 101, 110, 116, 45, 116, 121, 112, 101, 58, 32>>
    \o (IF f.content_type THEN <<116, 101, 120, 116, 47, 112, 108, 97, 105, 110>> ELSE <<97, 112, 112, 108, 105, 99, 97, 116, 105, 111, 110, 47, 111, 99, 116, 101, 116, 45, 115, 116, 114, 101, 97, 109>>)
    \o <<59, 99, 111, 110, 118, 101, 114, 115, 105, 111, 110, 115, 61, 34>>
    \o (IF f.compression THEN <<120, 45, 67, 66, 70, 95, 80, 65, 67, 75, 69, 68>> ELSE <<120, 45, 67, 66, 70, 95, 66, 89, 84, 69, 95, 79, 70, 70, 83, 69, 84>>)
    \o <<34, 13, 10>>
    \* garbage
    \o (IF f.header THEN <<103, 97, 114, 98, 97, 103, 101, 13, 10>> ELSE <<>>)
    \o BlankLine
    \o (IF f.magic THEN <<12, 26, 4, 0>> ELSE BinaryHeader)
    \o (IF f.payload THEN <<66, 128, 0>> ELSE <<66, 36>> \o BlankLine \o EndSentinel)

FaultStreams == {FaultySection(f) : f \in Faults}

\* read_all_images(reader) on a stream of one section with faults
InitFaults ==
    /\ overflow_checks \in BOOLEAN
    /\ stream \in FaultStreams
    /\ pos = 0
    /\ caller = "read_pixels"
    /\ P = "u8" /\ buf = <<>> /\ idx = 0 /\ base_value = Zero("u8")
    /\ decode_result = "none"
    /\ deltas = <<>>
    /\ line = <<>> /\ headers = NoHeaders /\ metadata = NoMetadata
    /\ steps = <<>> /\ marks = NoMarks
    /\ image_result = "none" /\ image = NoImageValue
    /\ images = <<>>
    /\ decoded = <<>>
    /\ returned = NotReturned
    /\ NoAnalysis
    /\ pc = "read_all_images"

SpecFaults == InitFaults /\ [][Next]_vars
---------------------------------------------------------------------------
(* C24: the error of a section with several faults. *)

\* the error the precedence of the claim picks for the faults f, "Ok" for none
FirstError(f) ==
    CASE f.header -> "Reading(Parsing)"
      [] ~f.header /\ f.metadata -> "InvalidElementCount"
      [] OTHER ->
           IF f.magic THEN "UnrecognisedBinaryHeader"
           ELSE IF f.byte_order THEN "UnsupportedByteOrder"
           ELSE IF f.content_type THEN "UnsupportedContentType"
           ELSE IF f.encoding THEN "UnsupportedEncoding"
           ELSE IF f.compression THEN "UnsupportedCompression"
           ELSE IF f.pixel_format THEN "UnsupportedPixelFormat"
           ELSE IF f.payload THEN "IO(UnexpectedEof)"
           ELSE IF f.dimension THEN "MissingDimension"
           ELSE "Ok"

\* the first read_image of the stream has returned
FirstImageReturned == image_result # "none" /\ marks.call = 0

\* C24: when several things are wrong in one section read_image returns one
\* error, picked in a fixed order: a header or metadata error first, then
\* UnrecognisedBinaryHeader, UnsupportedByteOrder, UnsupportedContentType,
\* UnsupportedEncoding, UnsupportedCompression, UnsupportedPixelFormat, then
\* the I/O error of the payload, and MissingDimension last, after the whole
\* payload was decoded and the end sentinel was searched for.
C24_OneErrorByPrecedence ==
    \A f \in Faults :
        (FirstImageReturned /\ stream = FaultySection(f)) =>
            /\ image_result = FirstError(f)
            /\ image_result = "MissingDimension" =>
                   /\ decode_result = "Ok"
                   /\ Len(buf) = 2
                   /\ marks.payload >= 0
                   /\ marks.end >= marks.payload
                   /\ Len(steps) = 7

\* C24's case: a section with a big endian byte order, the content type
\* text/plain, the encoding BASE64, the conversion x-CBF_PACKED, a real element
\* type, a cut payload and no dimension fields is refused for its byte order
C24_Witness ==
    /\ FirstImageReturned
    /\ stream = FaultySection([header |-> FALSE, metadata |-> FALSE, magic |-> FALSE,
                               byte_order |-> TRUE, content_type |-> TRUE,
                               encoding |-> TRUE, compression |-> TRUE,
                               pixel_format |-> TRUE, payload |-> TRUE,
                               dimension |-> TRUE])
    /\ image_result = "UnsupportedByteOrder"
---------------------------------------------------------------------------
(* C25: read_all_images comes to an end. *)

\* the places of the control in the order in which read_all_images can pass
\* through them without consuming from the stream: from the head of the loop
\* of read_all_images only the search for the start sentinel is reached, and
\* from there, with nothing consumed, only the return of NoImage
Rank ==
    CASE pc = "read_headers" -> 12
      [] pc = "read_header" -> 11
      [] pc = "read_binary_header" -> 10
      [] pc = "read_pixels" -> 9
      [] pc = "read" -> 8
      [] pc = "progress_reader_to_cbf_end" -> 7
      [] pc = "Image" -> 6
      [] pc = "try_read_next_image" /\ image_result = "Ok" -> 5
      [] pc = "read_all_images" -> 4
      [] pc = "progress_reader_to_cbf_start" -> 3
      [] pc = "try_read_next_image" /\ image_result # "Ok" -> 2
      [] OTHER -> 0

\* what is left to do: the bytes left in the stream, then the place of the
\* control, then the bytes of the line that were not parsed into a field
Left == <<Len(stream) - pos, Rank, Len(line)>>

\* a step leaves less to do, in the order of the dictionary: as the three
\* numbers are never negative, no run has infinitely many steps
LessLeft ==
    \/ Left'[1] < Left[1]
    \/ Left'[1] = Left[1] /\ Left'[2] < Left[2]
    \/ Left'[1] = Left[1] /\ Left'[2] = Left[2] /\ Left'[3] < Left[3]

\* a turn of a loop that stays in its loop has consumed from the stream: a
\* line of the search for a sentinel, the line that completes a header field,
\* the bytes of a sample; a header field that was complete is taken off the
\* line read before; no step moves back in the stream or beyond its end
ConsumesOrStops ==
    /\ pos <= pos' /\ pos' <= Len(stream)
    /\ (pc' = pc /\ pc \in {"progress_reader_to_cbf_start",
                            "progress_reader_to_cbf_end", "read"}) => pos < pos'
    /\ (pc' = pc /\ pc = "read_header") =>
           \/ pos < pos' /\ Len(line) < Len(line')
           \/ pos = pos' /\ Len(line') < Len(line)

\* the step that ends read_all_images returns the images after NoImage or
\* returns the error of read_image, and no step ends it in another way
EndsWithNoImageOrError ==
    /\ pc' \in {"returned", "panicked"} =>
           /\ pc' = "returned"
           /\ \/ image_result = "NoImage" /\ returned'.status = "Ok"
              \/ image_result \notin {"none", "Ok", "NoImage"} /\ returned'.status = "Err"
    /\ pc \in {"returned", "panicked"} => pc' = pc

\* C25: read_all_images terminates on every finite stream: every read of a
\* line in the search for a sentinel, every retry of an incomplete header
\* field and every decoded sample consumes from the stream or stops at its
\* end, every step leaves less to do, and the loop over the images ends with
\* NoImage or with an error.
C25_TerminatesWithNoImageOrError ==
    [][LessLeft /\ ConsumesOrStops /\ EndsWithNoImageOrError]_vars

====
